---------------------------- MODULE Spec2Model ----------------------------
(***************************************************************************)
(* A model of the graph-analytics core of beads_viewer (package analysis): *)
(*   - ConfigForSize / RecommendSampleSize, the size-driven configuration, *)
(*   - ApproxBetweenness / singleSourceBetweenness, sampled betweenness,   *)
(*   - NewAnalyzer / Analyze / computeHeights, the dependency graph,       *)
(* and of two parts of its front end: ui.TreeModel, the hierarchical view, *)
(* and the search package's hybridScorer.                                  *)
(*                                                                         *)
(* The specifications share the variables:                                 *)
(*   SpecConfig  inputs (nodeCount, edgeCount), then one call              *)
(*   Spec        a well-formed issue list, NewAnalyzer, then Analyze,      *)
(*               ApproxBetweenness or a full sweep of single-source passes *)
(*   SpecInput   an issue list written entry by entry (any ids, any        *)
(*               dependencies), NewAnalyzer, then Analyze                  *)
(*   SpecSample    sampleNodes, one swap of the shuffle at a time          *)
(*   SpecPool      the pooled single-source pass, one caller, one bundle   *)
(*   SpecWorkers   concurrent callers of the pooled pass                   *)
(*   SpecDeadline  the sampled computation, one accumulation step at a     *)
(*                 time, while its time budget may run out                 *)
(*   SpecLists     an issue list of blocking dependencies, any ids,        *)
(*                 NewAnalyzer, then Analyze                               *)
(*   SpecTree      a TreeModel, empty or populated, and its methods        *)
(*   SpecScorer    a hybridScorer and Configure                            *)
(*                                                                         *)
(* float64 values are modelled as exact rationals <<num, den>>; durations  *)
(* are modelled in milliseconds.                                           *)
(***************************************************************************)
EXTENDS Integers, Sequences, FiniteSets, TLC

VARIABLES
    pc,          \* position of the caller: which call has returned
    nodeCount,   \* ConfigForSize / RecommendSampleSize argument
    edgeCount,   \* ConfigForSize / RecommendSampleSize argument
    cfg,         \* the AnalysisConfig returned by ConfigForSize
    sample,      \* the value returned by RecommendSampleSize
    skipped,     \* the []SkippedMetric returned by cfg.SkippedMetrics()
    sampleSize,  \* the sampleSize argument of ApproxBetweenness (on an.g)
    pivots,      \* the pivots drawn by sampleNodes (a sequence of node ids)
    passes,      \* number of singleSourceBetweenness calls made
    partialBC,   \* the accumulator map the passes add into
    result,      \* the BetweennessResult returned by ApproxBetweenness
    issues,      \* the []model.Issue handed to NewAnalyzer
    an,          \* the *Analyzer built by NewAnalyzer
    stats,       \* the GraphStats returned by Analyze
    sampling,    \* the frame of one sampleNodes call, statement by statement
    pool,        \* brandesPool: the bundles a Get can hand out
    bundles,     \* the content of every brandesBuffers bundle allocated
    workers,     \* per caller of the pooled pass: its position and locals
    pass,        \* the singleSourceBetweenness call in progress, step by step
    expired,     \* whether the betweenness deadline has passed
    tree,        \* the ui.TreeModel: nodes, roots, flatList, cursor, built
    scorer       \* the search.hybridScorer and its last Configure call

vars == <<pc, nodeCount, edgeCount, cfg, sample, skipped, sampleSize, pivots,
          passes, partialBC, result, issues, an, stats, sampling, pool,
          bundles, workers, pass, expired, tree, scorer>>

configVars == <<nodeCount, edgeCount, cfg, sample, skipped>>
betweennessVars == <<sampleSize, pivots, passes, partialBC, result, sampling>>
analyzerVars == <<issues, an, stats>>
poolVars == <<pool, bundles, workers>>
deadlineVars == <<pass, expired>>
frontVars == <<tree, scorer>>

-----------------------------------------------------------------------------
(* Bounds of the model *)

MaxNodeCount == 2100
MaxNodes == 4
MaxEdges == 4
MaxSample == 2
MaxIssues == 2
MaxDeps == 2
MaxPoolNodes == 3
MaxWorkers == 2
MaxListIssues == 3
MaxTreeNodes == 4
MaxWeights == 4

-----------------------------------------------------------------------------
(* Generic helpers *)

Max(a, b) == IF a > b THEN a ELSE b

Range(s) == {s[i] : i \in DOMAIN s}

-----------------------------------------------------------------------------
(* BetweennessMode, betweenness_approx.go *)

BetweennessExact == "exact"
BetweennessApproximate == "approximate"
BetweennessSkip == "skip"

-----------------------------------------------------------------------------
(* RecommendSampleSize *)

\* A wrong small-tier threshold (1000 for 100): large graphs get nodeCount.
RecommendSampleSizeWrongTier(nc, ec) ==
    IF nc < 1000 THEN nc
    ELSE IF nc < 2000 THEN 100
    ELSE 200

\* The small tier returns the documented floor instead of nodeCount.
RecommendSampleSizeFloor(nc, ec) ==
    IF nc < 100 THEN 50
    ELSE IF nc < 500 THEN (IF nc \div 5 > 50 THEN nc \div 5 ELSE 50)
    ELSE IF nc < 2000 THEN 100
    ELSE 200

RecommendSampleSize(nc, ec) ==
    IF nc < 100 THEN nc
    ELSE IF nc < 500 THEN
        LET minSample == 50
            smp == nc \div 5
        IN  IF smp > minSample THEN smp ELSE minSample
    ELSE IF nc < 2000 THEN 100
    ELSE 200

-----------------------------------------------------------------------------
(* AnalysisConfig and ConfigForSize *)

\* The zero value of the struct: what a composite literal leaves unset.
ZeroConfig ==
    [ ComputeBetweenness       |-> FALSE,
      BetweennessTimeout       |-> 0,
      BetweennessSkipReason    |-> "",
      BetweennessMode          |-> "",
      BetweennessSampleSize    |-> 0,
      BetweennessIsApproximate |-> FALSE,
      ComputePageRank          |-> FALSE,
      PageRankTimeout          |-> 0,
      PageRankSkipReason       |-> "",
      ComputeHITS              |-> FALSE,
      HITSTimeout              |-> 0,
      HITSSkipReason           |-> "",
      ComputeCycles            |-> FALSE,
      CyclesTimeout            |-> 0,
      MaxCyclesToStore         |-> 0,
      CyclesSkipReason         |-> "",
      ComputeEigenvector       |-> FALSE,
      ComputeCriticalPath      |-> FALSE ]

\* density < 1/per, for density = float64(ec) / float64(nc*(nc-1)) when nc > 1
\* and 0.0 otherwise.  For nc*(nc-1) < 2^53 the quotient of the two integers
\* differs from 1/per by at least 1/(per*nc*(nc-1)) unless it equals it, far
\* more than one rounding step, so the float comparison is the integer one,
\* per * ec < nc*(nc-1), written without the product per * ec.
DensityBelow(nc, ec, per) ==
    IF nc > 1 THEN ec <= (nc * (nc - 1) - 1) \div per ELSE TRUE

SmallConfig ==
    [ZeroConfig EXCEPT
        !.ComputeBetweenness = TRUE, !.BetweennessMode = BetweennessExact,
        !.BetweennessTimeout = 2000,
        !.ComputePageRank = TRUE, !.PageRankTimeout = 2000,
        !.ComputeHITS = TRUE, !.HITSTimeout = 2000,
        !.ComputeCycles = TRUE, !.CyclesTimeout = 2000,
        !.MaxCyclesToStore = 1000,
        !.ComputeEigenvector = TRUE, !.ComputeCriticalPath = TRUE]

MediumConfig ==
    [ZeroConfig EXCEPT
        !.ComputeBetweenness = TRUE, !.BetweennessMode = BetweennessExact,
        !.BetweennessTimeout = 500,
        !.ComputePageRank = TRUE, !.PageRankTimeout = 500,
        !.ComputeHITS = TRUE, !.HITSTimeout = 500,
        !.ComputeCycles = TRUE, !.CyclesTimeout = 500,
        !.MaxCyclesToStore = 100,
        !.ComputeEigenvector = TRUE, !.ComputeCriticalPath = TRUE]

\* The Large tier gives the sampled betweenness 600 ms, more than the Medium
\* tier's 500 ms, where the code gives it 500 ms.
LargeConfigMoreTime(nc, ec) ==
    LET base == [ZeroConfig EXCEPT
                    !.ComputePageRank = TRUE, !.PageRankTimeout = 300,
                    !.ComputeHITS = TRUE, !.HITSTimeout = 300,
                    !.ComputeCycles = TRUE, !.CyclesTimeout = 300,
                    !.MaxCyclesToStore = 50,
                    !.ComputeEigenvector = TRUE, !.ComputeCriticalPath = TRUE]
    IN  IF DensityBelow(nc, ec, 100)
        THEN [base EXCEPT
                !.ComputeBetweenness = TRUE,
                !.BetweennessMode = BetweennessApproximate,
                !.BetweennessSampleSize = RecommendSampleSize(nc, ec),
                !.BetweennessTimeout = 600]
        ELSE [base EXCEPT
                !.ComputeBetweenness = FALSE,
                !.BetweennessMode = BetweennessSkip,
                !.BetweennessSkipReason = "graph too dense (density > 0.01)"]

LargeConfig(nc, ec) ==
    LET base == [ZeroConfig EXCEPT
                    !.ComputePageRank = TRUE, !.PageRankTimeout = 300,
                    !.ComputeHITS = TRUE, !.HITSTimeout = 300,
                    !.ComputeCycles = TRUE, !.CyclesTimeout = 300,
                    !.MaxCyclesToStore = 50,
                    !.ComputeEigenvector = TRUE, !.ComputeCriticalPath = TRUE]
    IN  IF DensityBelow(nc, ec, 100)
        THEN [base EXCEPT
                !.ComputeBetweenness = TRUE,
                !.BetweennessMode = BetweennessApproximate,
                !.BetweennessSampleSize = RecommendSampleSize(nc, ec),
                !.BetweennessTimeout = 500]
        ELSE [base EXCEPT
                !.ComputeBetweenness = FALSE,
                !.BetweennessMode = BetweennessSkip,
                !.BetweennessSkipReason = "graph too dense (density > 0.01)"]

XLConfig(nc, ec) ==
    LET base == [ZeroConfig EXCEPT
                    !.ComputeBetweenness = TRUE,
                    !.BetweennessMode = BetweennessApproximate,
                    !.BetweennessSampleSize = RecommendSampleSize(nc, ec),
                    !.BetweennessTimeout = 500,
                    !.ComputePageRank = TRUE, !.PageRankTimeout = 200,
                    !.ComputeCycles = FALSE,
                    !.CyclesSkipReason = "graph too large (>2000 nodes)",
                    !.MaxCyclesToStore = 10,
                    !.ComputeEigenvector = TRUE, !.ComputeCriticalPath = TRUE]
    IN  IF DensityBelow(nc, ec, 1000)
        THEN [base EXCEPT !.ComputeHITS = TRUE, !.HITSTimeout = 200]
        ELSE [base EXCEPT !.ComputeHITS = FALSE,
                          !.HITSSkipReason = "graph too large and dense"]

\* The Large tier tests density <= 0.01 where the code tests density < 0.01.
ConfigForSizeDenseInclusive(nc, ec) ==
    IF nc < 100 THEN SmallConfig
    ELSE IF nc < 500 THEN MediumConfig
    ELSE IF nc < 2000 THEN
        (IF nc > 1 /\ ec <= (nc * (nc - 1)) \div 100
         THEN LargeConfig(nc, 0) ELSE LargeConfig(nc, ec))
    ELSE XLConfig(nc, ec)

\* The approximate tier starts at 50 nodes where the code starts it at 500.
ConfigForSizeEarlyApprox(nc, ec) ==
    IF nc < 50 THEN SmallConfig
    ELSE IF nc < 2000 THEN LargeConfig(nc, ec)
    ELSE XLConfig(nc, ec)

ConfigForSize(nc, ec) ==
    IF nc < 100 THEN SmallConfig
    ELSE IF nc < 500 THEN MediumConfig
    ELSE IF nc < 2000 THEN LargeConfig(nc, ec)
    ELSE XLConfig(nc, ec)

\* The time budgets are one second: below the two seconds of the Small tier.
FullAnalysisConfigShortBudget ==
    [ZeroConfig EXCEPT
        !.ComputeBetweenness = TRUE, !.BetweennessMode = BetweennessExact,
        !.BetweennessTimeout = 1000,
        !.ComputePageRank = TRUE, !.PageRankTimeout = 1000,
        !.ComputeHITS = TRUE, !.HITSTimeout = 1000,
        !.ComputeCycles = TRUE, !.CyclesTimeout = 1000,
        !.MaxCyclesToStore = 10000,
        !.ComputeEigenvector = TRUE, !.ComputeCriticalPath = TRUE]

\* Lines 241-260.
FullAnalysisConfig ==
    [ZeroConfig EXCEPT
        !.ComputeBetweenness = TRUE, !.BetweennessMode = BetweennessExact,
        !.BetweennessTimeout = 30000,
        !.ComputePageRank = TRUE, !.PageRankTimeout = 30000,
        !.ComputeHITS = TRUE, !.HITSTimeout = 30000,
        !.ComputeCycles = TRUE, !.CyclesTimeout = 30000,
        !.MaxCyclesToStore = 10000,
        !.ComputeEigenvector = TRUE, !.ComputeCriticalPath = TRUE]

\* The Cycles entry is left out.
SkippedMetricsNoCycles(c) ==
    (IF ~c.ComputeBetweenness
     THEN <<[Name |-> "Betweenness", Reason |-> c.BetweennessSkipReason]>>
     ELSE <<>>)
    \o (IF ~c.ComputePageRank
        THEN <<[Name |-> "PageRank", Reason |-> c.PageRankSkipReason]>>
        ELSE <<>>)
    \o (IF ~c.ComputeHITS
        THEN <<[Name |-> "HITS", Reason |-> c.HITSSkipReason]>>
        ELSE <<>>)

\* Lines 263-292.
SkippedMetrics(c) ==
    (IF ~c.ComputeBetweenness
     THEN <<[Name |-> "Betweenness", Reason |-> c.BetweennessSkipReason]>>
     ELSE <<>>)
    \o (IF ~c.ComputePageRank
        THEN <<[Name |-> "PageRank", Reason |-> c.PageRankSkipReason]>>
        ELSE <<>>)
    \o (IF ~c.ComputeHITS
        THEN <<[Name |-> "HITS", Reason |-> c.HITSSkipReason]>>
        ELSE <<>>)
    \o (IF ~c.ComputeCycles
        THEN <<[Name |-> "Cycles", Reason |-> c.CyclesSkipReason]>>
        ELSE <<>>)

-----------------------------------------------------------------------------
(* float64 as exact rationals <<num, den>>, den > 0, in lowest terms *)

Abs(x) == IF x < 0 THEN -x ELSE x

RECURSIVE GCD(_, _)
GCD(a, b) == IF b = 0 THEN a ELSE GCD(b, a % b)

RNorm(num, den) ==
    LET d == GCD(Abs(num), den) IN <<num \div d, den \div d>>

RInt(i) == <<i, 1>>
RAdd(a, b) == RNorm(a[1] * b[2] + b[1] * a[2], a[2] * b[2])
RMul(a, b) == RNorm(a[1] * b[1], a[2] * b[2])
RLe(a, b) == a[1] * b[2] <= b[1] * a[2]

-----------------------------------------------------------------------------
(* Go maps: a function whose domain is the set of keys present *)

EmptyMap == <<>>

MapGet(m, k, zero) == IF k \in DOMAIN m THEN m[k] ELSE zero

MapPut(m, k, v) == [x \in DOMAIN m \cup {k} |-> IF x = k THEN v ELSE m[x]]

-----------------------------------------------------------------------------
(* simple.DirectedGraph: node ids 0 .. n-1 as NewNode hands them out, and a *)
(* set of edges <<from, to>>                                                *)

Nodes(gr) == 0 .. gr.n - 1

\* g.To(id): the nodes with an edge into id;  g.From(id): the nodes id points to
To(gr, id) == {u \in Nodes(gr) : <<u, id>> \in gr.edges}
From(gr, id) == {v \in Nodes(gr) : <<id, v>> \in gr.edges}

\* graph.NodesOf(g.Nodes()) ranges over a Go map, whose iteration starts at an
\* arbitrary offset: the enumerations are the rotations of the id order.
NodeOrders(gr) ==
    IF gr.n = 0 THEN {<<>>}
    ELSE {[i \in 1 .. gr.n |-> (i - 1 + r) % gr.n] : r \in 0 .. gr.n - 1}

\* path.DijkstraFrom(source, g) on an unweighted graph (UniformCost: every edge
\* weighs 1): pt.To(v) gives the hop count, +Inf (here -1) when unreachable.
RECURSIVE DijkstraLayers(_, _, _, _)
DijkstraLayers(gr, frontier, dm, d) ==
    IF frontier = {} THEN dm
    ELSE LET next == {v \in Nodes(gr) :
                         dm[v] = -1 /\ \E u \in frontier : <<u, v>> \in gr.edges}
         IN  DijkstraLayers(gr, next,
                 [v \in Nodes(gr) |-> IF v \in next THEN d + 1 ELSE dm[v]], d + 1)

DijkstraFrom(gr, source) ==
    DijkstraLayers(gr, {source},
                   [v \in Nodes(gr) |-> IF v = source THEN 0 ELSE -1], 0)

-----------------------------------------------------------------------------
(* singleSourceBetweenness *)

\* The stack: every reachable node but the source, in enumeration order, then
\* sort.Slice by distance (ties keep an arbitrary order: that of `ord`).
\* The stack left in enumeration order.
SortedByDistUnsorted(ord, dist, d, maxd) ==
    SelectSeq(ord, LAMBDA v : dist[v] >= d /\ dist[v] <= maxd)

RECURSIVE SortedByDist(_, _, _, _)
SortedByDist(ord, dist, d, maxd) ==
    IF d > maxd THEN <<>>
    ELSE SelectSeq(ord, LAMBDA v : dist[v] = d) \o SortedByDist(ord, dist, d + 1, maxd)

RECURSIVE SumSigma(_, _)
SumSigma(sigma, ps) ==
    IF ps = {} THEN 0
    ELSE LET p == CHOOSE x \in ps : TRUE
         IN  sigma[p] + SumSigma(sigma, ps \ {p})

\* Lines 193-232: for each node of the stack in order, its predecessors on a
\* shortest path (appended to what pred[nid] holds) and its sigma.
\* st = [sigma, pred].  A pred slice holds a node at most once: it is a set.
RECURSIVE SigmaPhase(_, _, _, _, _, _)
SigmaPhase(gr, sourceID, dist, stack, i, st) ==
    IF i > Len(stack) THEN st
    ELSE LET nid == stack[i]
             nodeDist == dist[nid]
             found == st.pred[nid] \cup
                      {p \in To(gr, nid) : dist[p] >= 0 /\ dist[p] + 1 = nodeDist}
             st1 == IF found # {}
                    THEN [sigma |-> [st.sigma EXCEPT
                                        ![nid] = @ + SumSigma(st.sigma, found)],
                          pred |-> [st.pred EXCEPT ![nid] = found]]
                    ELSE IF nid # sourceID /\ sourceID \in To(gr, nid)
                    THEN [sigma |-> [st.sigma EXCEPT ![nid] = 1],
                          pred |-> [st.pred EXCEPT ![nid] = {sourceID}]]
                    ELSE st
         IN  SigmaPhase(gr, sourceID, dist, stack, i + 1, st1)

\* The sigma ratio is left out: delta[pid] += 1 + delta[nid].
RECURSIVE AddToPredsNoRatio(_, _, _, _)
AddToPredsNoRatio(sigma, delta, nid, ps) ==
    IF ps = {} THEN delta
    ELSE LET pid == CHOOSE x \in ps : TRUE
             d1 == [delta EXCEPT ![pid] = RAdd(@, RAdd(RInt(1), delta[nid]))]
         IN  AddToPredsNoRatio(sigma, d1, nid, ps \ {pid})

\* Lines 242-247: delta[pid] += (sigma[pid] / sigma[nid]) * (1 + delta[nid])
RECURSIVE AddToPreds(_, _, _, _)
AddToPreds(sigma, delta, nid, ps) ==
    IF ps = {} THEN delta
    ELSE LET pid == CHOOSE x \in ps : TRUE
             d1 == IF sigma[nid] > 0
                   THEN [delta EXCEPT ![pid] =
                            RAdd(@, RMul(RNorm(sigma[pid], sigma[nid]),
                                         RAdd(RInt(1), delta[nid])))]
                   ELSE delta
         IN  AddToPreds(sigma, d1, nid, ps \ {pid})

\* Lines 235-253: the stack from its far end; acc = [delta, bc].
\* Line 251 assigns, bc[nid] = delta[nid], where the code adds.
RECURSIVE AccumulateOverwrite(_, _, _, _, _)
AccumulateOverwrite(sourceID, st, stack, i, acc) ==
    IF i < 1 THEN acc
    ELSE LET nid == stack[i]
         IN  IF st.sigma[nid] = 0
             THEN AccumulateOverwrite(sourceID, st, stack, i - 1, acc)
             ELSE LET delta1 == AddToPreds(st.sigma, acc.delta, nid, st.pred[nid])
                      bc1 == IF nid # sourceID
                             THEN MapPut(acc.bc, nid, delta1[nid])
                             ELSE acc.bc
                  IN  AccumulateOverwrite(sourceID, st, stack, i - 1,
                                          [delta |-> delta1, bc |-> bc1])

\* Lines 236-252: the iteration of the accumulation loop on stack[i].
AccumulateStep(sourceID, st, stack, i, acc) ==
    LET nid == stack[i]
    IN  IF st.sigma[nid] = 0 THEN acc
        ELSE LET delta1 == AddToPreds(st.sigma, acc.delta, nid, st.pred[nid])
                 bc1 == IF nid # sourceID
                        THEN MapPut(acc.bc, nid,
                                 RAdd(MapGet(acc.bc, nid, RInt(0)), delta1[nid]))
                        ELSE acc.bc
             IN  [delta |-> delta1, bc |-> bc1]

\* Lines 235-253, from i = len(stack) - 1 down.
RECURSIVE Accumulate(_, _, _, _, _)
Accumulate(sourceID, st, stack, i, acc) ==
    IF i < 1 THEN acc
    ELSE Accumulate(sourceID, st, stack, i - 1,
                    AccumulateStep(sourceID, st, stack, i, acc))

\* Lines 149-165: the four scratch maps as the pass allocates and fills them.
FreshBuffers(gr) ==
    [sigma |-> [v \in Nodes(gr) |-> 0],
     dist |-> [v \in Nodes(gr) |-> -1],
     delta |-> [v \in Nodes(gr) |-> RInt(0)],
     pred |-> [v \in Nodes(gr) |-> {}]]

\* The scratch state of one pass after line 232, from the scratch maps buf as
\* initialised: dist, the stack, sigma, pred.
PassState(gr, sourceID, ord, buf) ==
    LET pt == DijkstraFrom(gr, sourceID)
        dist0 == [buf.dist EXCEPT ![sourceID] = 0]
        dist == [v \in DOMAIN dist0 |->
                    IF v \in Nodes(gr) /\ v # sourceID /\ pt[v] # -1
                    THEN pt[v] ELSE dist0[v]]
        stack == SortedByDist(SelectSeq(ord, LAMBDA v : pt[v] # -1 /\ v # sourceID),
                              dist, 1, gr.n)
        st0 == [sigma |-> [buf.sigma EXCEPT ![sourceID] = 1],
                pred |-> buf.pred]
    IN  [dist |-> dist, stack |-> stack,
         st |-> SigmaPhase(gr, sourceID, dist, stack, 1, st0)]

\* Lines 167-253 on scratch maps buf: the accumulator and the scratch maps
\* as the pass leaves them.
PassOn(gr, sourceID, bc, ord, buf) ==
    LET ps == PassState(gr, sourceID, ord, buf)
        acc == Accumulate(sourceID, ps.st, ps.stack, Len(ps.stack),
                          [delta |-> buf.delta, bc |-> bc])
    IN  [bc |-> acc.bc,
         buf |-> [sigma |-> ps.st.sigma, dist |-> ps.dist,
                  delta |-> acc.delta, pred |-> ps.st.pred]]

singleSourceBetweenness(gr, sourceID, bc, ord) ==
    PassOn(gr, sourceID, bc, ord, FreshBuffers(gr)).bc

-----------------------------------------------------------------------------
(* The pooled pass of the performance plan: brandesBuffers, reset, and       *)
(* singleSourceBetweenness on a bundle checked out of brandesPool.           *)
(* A bundle is [sigma, dist, delta, pred]; the queue, stack and neighbors    *)
(* slices are cut to length 0 by reset and hold nothing across passes.       *)

\* brandesPool.New: a bundle of empty maps.
NewBuffers == [sigma |-> EmptyMap, dist |-> EmptyMap, delta |-> EmptyMap,
               pred |-> EmptyMap]

\* One map after the loop of reset: every node of nodes set to val, the other
\* keys as they were.
ResetMap(m, nodes, val) ==
    [id \in DOMAIN m \cup Range(nodes) |-> IF id \in Range(nodes) THEN val ELSE m[id]]

\* pred[nid] keeps what it held: the slice is not cut to length 0.
resetKeepsPred(b, nodes) ==
    LET b1 == IF Cardinality(DOMAIN b.sigma) > Len(nodes) * 2 THEN NewBuffers ELSE b
    IN  [sigma |-> ResetMap(b1.sigma, nodes, 0),
         dist |-> ResetMap(b1.dist, nodes, -1),
         delta |-> ResetMap(b1.delta, nodes, RInt(0)),
         pred |-> [id \in DOMAIN b1.pred \cup Range(nodes) |->
                     IF id \in DOMAIN b1.pred THEN b1.pred[id] ELSE {}]]

\* brandesBuffers.reset: the maps are cleared when they hold more than twice
\* the nodes of this graph, then every node of the graph is set to its
\* initial value.
reset(b, nodes) ==
    LET b1 == IF Cardinality(DOMAIN b.sigma) > Len(nodes) * 2 THEN NewBuffers ELSE b
    IN  [sigma |-> ResetMap(b1.sigma, nodes, 0),
         dist |-> ResetMap(b1.dist, nodes, -1),
         delta |-> ResetMap(b1.delta, nodes, RInt(0)),
         pred |-> ResetMap(b1.pred, nodes, {})]

\* The pooled singleSourceBetweenness between Get and Put: reset, then the
\* pass on the bundle's maps.  Gives the accumulator and the bundle after it.
singleSourceBetweennessPooled(gr, sourceID, bc, ord, b) ==
    PassOn(gr, sourceID, bc, ord, reset(b, ord))

-----------------------------------------------------------------------------
(* network.Betweenness (gonum): exact betweenness of every node, the sum over *)
(* ordered pairs (s, t) of the share of shortest s-t paths through the node;  *)
(* the map returned holds the non-zero scores only.                           *)

\* Number of walks of exactly len edges from s to t.
RECURSIVE Walks(_, _, _, _)
RECURSIVE SumWalks(_, _, _, _)
SumWalks(gr, ws, t, len) ==
    IF ws = {} THEN 0
    ELSE LET w == CHOOSE x \in ws : TRUE
         IN  Walks(gr, w, t, len) + SumWalks(gr, ws \ {w}, t, len)
Walks(gr, s, t, len) ==
    IF len = 0 THEN (IF s = t THEN 1 ELSE 0)
    ELSE SumWalks(gr, From(gr, s), t, len - 1)

\* Length of a shortest path from s to t, -1 when there is none.
HopDist(gr, s, t) ==
    LET ls == {len \in 0 .. gr.n - 1 : Walks(gr, s, t, len) > 0}
    IN  IF ls = {} THEN -1 ELSE CHOOSE l \in ls : \A m \in ls : l <= m

\* For every ordered pair: the length of a shortest path and their number.
ShortestPathTable(gr) ==
    [pr \in Nodes(gr) \X Nodes(gr) |->
        LET d == HopDist(gr, pr[1], pr[2])
        IN  [dist |-> d,
             count |-> IF d = -1 THEN 0 ELSE Walks(gr, pr[1], pr[2], d)]]

\* Share of the shortest s-t paths that pass through v.
PairDependency(tab, s, t, v) ==
    LET st == tab[<<s, t>>]
        sv == tab[<<s, v>>]
        vt == tab[<<v, t>>]
    IN  IF st.dist = -1 \/ sv.dist = -1 \/ vt.dist = -1
           \/ sv.dist + vt.dist # st.dist
        THEN RInt(0)
        ELSE RNorm(sv.count * vt.count, st.count)

RECURSIVE SumPairs(_, _, _)
SumPairs(tab, v, prs) ==
    IF prs = {} THEN RInt(0)
    ELSE LET pr == CHOOSE x \in prs : TRUE
         IN  RAdd(PairDependency(tab, pr[1], pr[2], v), SumPairs(tab, v, prs \ {pr}))

\* The exact betweenness of every node of gr.
ExactScores(gr) ==
    LET tab == ShortestPathTable(gr)
    IN  [v \in Nodes(gr) |->
            SumPairs(tab, v, {pr \in Nodes(gr) \X Nodes(gr) :
                                 pr[1] # v /\ pr[2] # v /\ pr[1] # pr[2]})]

Betweenness(gr) ==
    LET all == ExactScores(gr)
    IN  [v \in {x \in Nodes(gr) : all[x] # RInt(0)} |-> all[v]]

-----------------------------------------------------------------------------
(* sampleNodes and ApproxBetweenness *)

\* Lines 129-132: for i in 0..k-1, j = i + draws[i+1], swap shuffled[i], [j]
\* (sequences are 1-based here).
RECURSIVE FisherYates(_, _, _, _)
FisherYates(shuffled, k, draws, i) ==
    IF i >= k THEN shuffled
    ELSE LET j == i + draws[i + 1]
         IN  FisherYates([shuffled EXCEPT ![i + 1] = shuffled[j + 1],
                                          ![j + 1] = shuffled[i + 1]],
                         k, draws, i + 1)

\* The sequences rng.Intn(len(shuffled)-i) can return for i = 0 .. k-1.
RECURSIVE DrawsFrom(_, _, _)
DrawsFrom(len, k, i) ==
    IF i >= k THEN {<<>>}
    ELSE {<<d>> \o rest : d \in 0 .. len - i - 1, rest \in DrawsFrom(len, k, i + 1)}

Draws(len, k) == IF k >= len \/ k <= 0 THEN {<<>>} ELSE DrawsFrom(len, k, 0)

sampleNodes(nodes, k, draws) ==
    IF k >= Len(nodes) THEN nodes
    ELSE SubSeq(FisherYates(nodes, k, draws, 0), 1, k)

\* sampleNodes statement by statement.  A frame holds the two backing arrays
\* (nodes: the caller's slice; shuffled: the one make allocates), ref: the
\* array the local variable shuffled names, the loop index i, the argument k,
\* and, for reference, the slice as passed in and the draws made so far.
SampleFrame(nodes, k) ==
    [nodes |-> nodes, shuffled |-> <<>>, ref |-> "nodes", i |-> 0, k |-> k,
     input |-> nodes, draws |-> <<>>, ret |-> <<>>]

\* No copy is made: the local slice names the caller's array.
CopyNodesAliased(fr) == [fr EXCEPT !.ref = "nodes"]

\* Lines 124-125: shuffled := make(...); copy(shuffled, nodes).
CopyNodes(fr) == [fr EXCEPT !.shuffled = fr.nodes, !.ref = "shuffled"]

\* Lines 130-131 with rng.Intn returning d.
SwapStep(fr, d) ==
    LET arr == fr[fr.ref]
        j == fr.i + d
        swapped == [arr EXCEPT ![fr.i + 1] = arr[j + 1], ![j + 1] = arr[fr.i + 1]]
    IN  [fr EXCEPT ![fr.ref] = swapped, !.i = fr.i + 1,
                   !.draws = Append(fr.draws, d)]

RECURSIVE RunPasses(_, _, _, _, _)
RunPasses(gr, pvs, i, bc, ord) ==
    IF i > Len(pvs) THEN bc
    ELSE RunPasses(gr, pvs, i + 1, singleSourceBetweenness(gr, pvs[i], bc, ord), ord)

\* Lines 106-109: every entry times float64(n) / float64(sampleSize).  With
\* sampleSize = 0 the accumulator is empty and the infinite scale is unused.
Scaled(bc, n, k) ==
    [id \in DOMAIN bc |-> RMul(bc[id], RNorm(n, k))]

\* The fallback tests sampleSize > n where the code tests sampleSize >= n.
ApproxBetweennessStrictFallback(gr, k, draws, ord) ==
    LET n == gr.n
        res == [Scores |-> EmptyMap, Mode |-> BetweennessApproximate,
                SampleSize |-> k, TotalNodes |-> n, TimedOut |-> FALSE]
    IN  IF n = 0 THEN res
        ELSE IF k > n
        THEN [res EXCEPT !.Scores = Betweenness(gr), !.Mode = BetweennessExact,
                         !.SampleSize = n]
        ELSE [res EXCEPT !.Scores =
                 Scaled(RunPasses(gr, sampleNodes(ord, k, draws), 1, EmptyMap, ord),
                        n, k)]

ApproxBetweenness(gr, k, draws, ord) ==
    LET n == gr.n
        res == [Scores |-> EmptyMap, Mode |-> BetweennessApproximate,
                SampleSize |-> k, TotalNodes |-> n, TimedOut |-> FALSE]
    IN  IF n = 0 THEN res
        ELSE IF k >= n
        THEN [res EXCEPT !.Scores = Betweenness(gr), !.Mode = BetweennessExact,
                         !.SampleSize = n]
        ELSE [res EXCEPT !.Scores =
                 Scaled(RunPasses(gr, sampleNodes(ord, k, draws), 1, EmptyMap, ord),
                        n, k)]

-----------------------------------------------------------------------------
(* model.Issue, model.Dependency and NewAnalyzer *)

DepBlocks == "blocks"
DepRelated == "related"
DepParentChild == "parent-child"

\* Index (1-based) of the last issue of the list carrying id: the node whose
\* id the first loop leaves in idToNode[id] is that index minus one.
LastIndexOf(iss, id) ==
    CHOOSE i \in DOMAIN iss :
        iss[i].ID = id /\ \A j \in DOMAIN iss : iss[j].ID = id => j <= i

\* The exists test of line 66 is missing: an unknown id reads as node 0.
EdgeRequestsNoExistsTest(iss, idToNode) ==
    UNION { { <<idToNode[iss[i].ID],
                MapGet(idToNode, iss[i].Dependencies[j].DependsOnID, 0)>> :
                j \in DOMAIN iss[i].Dependencies } :
            i \in DOMAIN iss }

\* The (u, v) pairs the second loop hands to SetEdge.
EdgeRequests(iss, idToNode) ==
    UNION { { <<idToNode[iss[i].ID], idToNode[iss[i].Dependencies[j].DependsOnID]>> :
                j \in { x \in DOMAIN iss[i].Dependencies :
                          iss[i].Dependencies[x].DependsOnID \in DOMAIN idToNode } } :
            i \in DOMAIN iss }

\* SetEdge panics on u = v ("simple: adding self edge"): panicked is then TRUE
\* and no analyzer is returned.
NewAnalyzer(iss) ==
    LET ids == {iss[i].ID : i \in DOMAIN iss}
        idToNode == [id \in ids |-> LastIndexOf(iss, id) - 1]
        nodeToID == [v \in 0 .. Len(iss) - 1 |-> iss[v + 1].ID]
        issueMap == [id \in ids |-> iss[LastIndexOf(iss, id)]]
        requests == EdgeRequests(iss, idToNode)
    IN  [ g |-> [n |-> Len(iss), edges |-> requests],
          idToNode |-> idToNode,
          nodeToID |-> nodeToID,
          issueMap |-> issueMap,
          panicked |-> \E e \in requests : e[1] = e[2] ]

-----------------------------------------------------------------------------
(* gonum topo: Sort and DirectedCyclesIn *)

\* topo.Sort(g): an order with u before v for every edge u -> v.  The order
\* among unrelated nodes follows Go's map iteration, so any such order can be
\* returned; with a cycle there is none and Sort returns an error.
RECURSIVE TopoOrdersOf(_, _)
TopoOrdersOf(gr, remaining) ==
    IF remaining = {} THEN {<<>>}
    ELSE UNION { { <<u>> \o rest : rest \in TopoOrdersOf(gr, remaining \ {u}) } :
                   u \in { x \in remaining :
                             ~ \E y \in remaining : <<y, x>> \in gr.edges } }

TopoSort(gr) ==
    LET orders == TopoOrdersOf(gr, Nodes(gr))
    IN  IF orders = {} THEN {[sorted |-> <<>>, err |-> TRUE]}
        ELSE {[sorted |-> o, err |-> FALSE] : o \in orders}

\* The simple paths of gr that start at their smallest node.
RECURSIVE PathsFromMin(_, _, _)
PathsFromMin(gr, paths, k) ==
    IF k = 0 THEN paths
    ELSE PathsFromMin(gr,
            paths \cup { Append(p, v) :
                           <<p, v>> \in { pr \in paths \X Nodes(gr) :
                               /\ <<pr[1][Len(pr[1])], pr[2]>> \in gr.edges
                               /\ pr[2] > pr[1][1]
                               /\ pr[2] \notin Range(pr[1]) } },
            k - 1)

\* topo.DirectedCyclesIn(g): the elementary cycles, each a node list that ends
\* with its first node; here each starts at its smallest node.
DirectedCyclesIn(gr) ==
    { p \o <<p[1]>> :
        p \in { q \in PathsFromMin(gr, {<<v>> : v \in Nodes(gr)}, gr.n) :
                  Len(q) >= 2 /\ <<q[Len(q)], q[1]>> \in gr.edges } }

-----------------------------------------------------------------------------
(* Analyzer.computeHeights and Analyzer.Analyze *)

RECURSIVE MaxChildHeight(_, _, _)
MaxChildHeight(heights, vs, maxChildHeight) ==
    IF vs = {} THEN maxChildHeight
    ELSE LET v == CHOOSE x \in vs : TRUE
             m == IF v \in DOMAIN heights /\ heights[v] > maxChildHeight
                  THEN heights[v] ELSE maxChildHeight
         IN  MaxChildHeight(heights, vs \ {v}, m)

\* Lines 236-253, from i = len(sorted)-1 down; hs = [heights, impactScores].
RECURSIVE HeightsLoop(_, _, _, _)
HeightsLoop(a, sorted, i, hs) ==
    IF i < 1 THEN hs
    ELSE LET uid == sorted[i]
             h == 1 + MaxChildHeight(hs.heights, From(a.g, uid), 0)
         IN  HeightsLoop(a, sorted, i - 1,
                 [heights |-> MapPut(hs.heights, uid, h),
                  impactScores |-> MapPut(hs.impactScores, a.nodeToID[uid], h)])

\* The loop runs from the front of the sorted list: dependents first.
RECURSIVE HeightsLoopForward(_, _, _, _)
HeightsLoopForward(a, sorted, i, hs) ==
    IF i > Len(sorted) THEN hs
    ELSE LET uid == sorted[i]
             h == 1 + MaxChildHeight(hs.heights, From(a.g, uid), 0)
         IN  HeightsLoopForward(a, sorted, i + 1,
                 [heights |-> MapPut(hs.heights, uid, h),
                  impactScores |-> MapPut(hs.impactScores, a.nodeToID[uid], h)])

\* maxChildHeight is not reset for each node: it carries over.
RECURSIVE HeightsLoopCarried(_, _, _, _, _)
HeightsLoopCarried(a, sorted, i, hs, carried) ==
    IF i < 1 THEN hs
    ELSE LET uid == sorted[i]
             m == MaxChildHeight(hs.heights, From(a.g, uid), carried)
         IN  HeightsLoopCarried(a, sorted, i - 1,
                 [heights |-> MapPut(hs.heights, uid, 1 + m),
                  impactScores |-> MapPut(hs.impactScores, a.nodeToID[uid], 1 + m)],
                 m)

computeHeightsCarried(a, sorted) ==
    HeightsLoopCarried(a, sorted, Len(sorted),
        [heights |-> EmptyMap, impactScores |-> EmptyMap], 0).impactScores

computeHeightsForward(a, sorted) ==
    HeightsLoopForward(a, sorted, 1,
        [heights |-> EmptyMap, impactScores |-> EmptyMap]).impactScores

\* sorted: what the topo.Sort call of line 178 returns.
computeHeights(a, sorted) ==
    HeightsLoop(a, sorted, Len(sorted),
        [heights |-> EmptyMap, impactScores |-> EmptyMap]).impactScores

\* A map keyed by issue id written once per node in enumeration order ord:
\* when two nodes carry the same id the later write stays.
KeyedByID(a, ord, val) ==
    LET RECURSIVE put(_, _)
        put(i, acc) ==
            IF i > Len(ord) THEN acc
            ELSE IF ord[i] \in DOMAIN val
            THEN put(i + 1, MapPut(acc, a.nodeToID[ord[i]], val[ord[i]]))
            ELSE put(i + 1, acc)
    IN  put(1, EmptyMap)

\* network.PageRank(g, 0.85, 1e-6): one score per node (nil for no node).
\* The scores are not computed here: each is the token "score".
PageRank(gr) == [v \in Nodes(gr) |-> "score"]

RECURSIVE Reverse(_)
Reverse(sq) == IF sq = <<>> THEN <<>> ELSE Reverse(Tail(sq)) \o <<Head(sq)>>

\* The n > 1 guard is missing: 0/0 for fewer than two nodes.
DensityUnguarded(n, e) ==
    IF n * (n - 1) = 0 THEN <<0, 0>> ELSE RNorm(e, n * (n - 1))

\* Lines 166-171.
Density(n, e) == IF n > 1 THEN RNorm(e, n * (n - 1)) ELSE RInt(0)

\* The err == nil guard is missing: on a cycle the sorted list holds nil
\* nodes and the loop of computeHeights fails on the first of them.
CriticalPathUnguarded(a, err, sort2) ==
    IF err THEN MapPut(EmptyMap, "panic", 0)
    ELSE computeHeights(a, sort2.sorted)

\* Lines 156-164: the heights, only when the sort of line 139 succeeded
\* (err: whether it returned an error; sort2: the sort of line 178).
CriticalPath(a, err, sort2) ==
    IF err THEN EmptyMap ELSE computeHeights(a, sort2.sorted)

\* Lines 101-136 and 166-171: what Analyze computes whether or not the graph
\* has a cycle.  ord: the order in which the graph's node map is iterated.
AnalyzeCentrality(a, ord) ==
    LET gr == a.g
        inDeg == [v \in Nodes(gr) |-> Cardinality(To(gr, v))]
        outDeg == [v \in Nodes(gr) |-> Cardinality(From(gr, v))]
        pageRank == KeyedByID(a, ord, PageRank(gr))
    IN  [ InDegree |-> KeyedByID(a, ord, inDeg),
          OutDegree |-> KeyedByID(a, ord, outDeg),
          PageRank |-> pageRank,
          Betweenness |-> KeyedByID(a, ord, Betweenness(gr)),
          Cycles |-> { [i \in DOMAIN c |-> a.nodeToID[c[i]]] :
                         c \in DirectedCyclesIn(gr) },
          Density |-> Density(Cardinality(DOMAIN pageRank),
                              Cardinality(gr.edges)) ]

\* The sorted list is copied front to back: dependents first.
TopologicalOrderUnreversed(a, sort1) ==
    IF sort1.err THEN <<>>
    ELSE [i \in DOMAIN sort1.sorted |-> a.nodeToID[sort1.sorted[i]]]

\* Lines 139-154: the reversed sort, only when topo.Sort succeeded.
TopologicalOrder(a, sort1) ==
    IF sort1.err THEN <<>>
    ELSE LET rev == Reverse(sort1.sorted)
         IN  [i \in DOMAIN rev |-> a.nodeToID[rev[i]]]

-----------------------------------------------------------------------------
(* ui.TreeModel.  A node is a positive number, 0 is the nil node; nodes maps *)
(* a node to its IssueTreeNode fields.                                       *)

\* NewTreeModel(theme).
NewTreeModel ==
    [nodes |-> <<>>, roots |-> <<>>, flatList |-> <<>>, cursor |-> 0,
     built |-> FALSE]

\* Build(issues): the list is not read.
Build(t, iss) ==
    [t EXCEPT !.nodes = <<>>, !.roots = <<>>, !.flatList = <<>>, !.cursor = 0,
              !.built = TRUE]

SelectedNode(t) ==
    IF t.cursor >= 0 /\ t.cursor < Len(t.flatList)
    THEN t.flatList[t.cursor + 1] ELSE 0

MoveDown(t) ==
    IF t.cursor < Len(t.flatList) - 1 THEN [t EXCEPT !.cursor = @ + 1] ELSE t

MoveUp(t) ==
    IF t.cursor > 0 THEN [t EXCEPT !.cursor = @ - 1] ELSE t

JumpToTop(t) == [t EXCEPT !.cursor = 0]

JumpToBottom(t) ==
    IF Len(t.flatList) > 0 THEN [t EXCEPT !.cursor = Len(t.flatList) - 1] ELSE t

\* setExpandedRecursive(node, expanded), on the nodes map.
RECURSIVE setExpandedRecursive(_, _, _)
RECURSIVE SetExpandedEach(_, _, _, _)
setExpandedRecursive(nodes, node, expanded) ==
    IF node = 0 THEN nodes
    ELSE SetExpandedEach([nodes EXCEPT ![node].Expanded = expanded],
                         nodes[node].Children, 1, expanded)

SetExpandedEach(nodes, kids, i, expanded) ==
    IF i > Len(kids) THEN nodes
    ELSE SetExpandedEach(setExpandedRecursive(nodes, kids[i], expanded),
                         kids, i + 1, expanded)

\* appendVisible(node), on the flat list.
RECURSIVE appendVisibleAlways(_, _, _)
RECURSIVE AppendVisibleAlwaysEach(_, _, _, _)
appendVisibleAlways(nodes, flat, node) ==
    IF node = 0 THEN flat
    ELSE AppendVisibleAlwaysEach(nodes, Append(flat, node),
                                 nodes[node].Children, 1)

AppendVisibleAlwaysEach(nodes, flat, kids, i) ==
    IF i > Len(kids) THEN flat
    ELSE AppendVisibleAlwaysEach(nodes, appendVisibleAlways(nodes, flat, kids[i]),
                                 kids, i + 1)

RECURSIVE appendVisible(_, _, _)
RECURSIVE AppendVisibleEach(_, _, _, _)
appendVisible(nodes, flat, node) ==
    IF node = 0 THEN flat
    ELSE LET flat1 == Append(flat, node)
         IN  IF nodes[node].Expanded
             THEN AppendVisibleEach(nodes, flat1, nodes[node].Children, 1)
             ELSE flat1

AppendVisibleEach(nodes, flat, kids, i) ==
    IF i > Len(kids) THEN flat
    ELSE AppendVisibleEach(nodes, appendVisible(nodes, flat, kids[i]), kids, i + 1)

rebuildFlatListUnclamped(t) ==
    [t EXCEPT !.flatList = AppendVisibleEach(t.nodes, <<>>, t.roots, 1)]

\* rebuildFlatList(): the visible nodes again, then the cursor into bounds.
rebuildFlatList(t) ==
    LET flat == AppendVisibleEach(t.nodes, <<>>, t.roots, 1)
        c1 == IF t.cursor >= Len(flat) THEN Len(flat) - 1 ELSE t.cursor
        c2 == IF c1 < 0 THEN 0 ELSE c1
    IN  [t EXCEPT !.flatList = flat, !.cursor = c2]

ToggleExpand(t) ==
    LET node == SelectedNode(t)
    IN  IF node # 0 /\ Len(t.nodes[node].Children) > 0
        THEN rebuildFlatList([t EXCEPT !.nodes[node].Expanded = ~@])
        ELSE t

ExpandAll(t) ==
    rebuildFlatList([t EXCEPT !.nodes = SetExpandedEach(@, t.roots, 1, TRUE)])

CollapseAll(t) ==
    rebuildFlatList([t EXCEPT !.nodes = SetExpandedEach(@, t.roots, 1, FALSE)])

IsBuilt(t) == t.built
NodeCount(t) == Len(t.flatList)
RootCount(t) == Len(t.roots)

-----------------------------------------------------------------------------
(* search.hybridScorer.  Configure copies Weights values and never looks    *)
(* inside them: the values are numbered 1 .. MaxWeights.  Weights.Validate  *)
(* is declared outside the sources: scorer.valid is the set of values it    *)
(* accepts, any set.                                                        *)

\* weights.Validate() returns nil.
Validate(s, weights) == weights \in s.valid

ConfigureAssignsFirst(s, weights) ==
    [s EXCEPT !.weights = weights, !.err = ~Validate(s, weights)]

\* Configure(weights); err: whether an error is returned.
Configure(s, weights) ==
    IF ~Validate(s, weights)
    THEN [s EXCEPT !.err = TRUE]
    ELSE [s EXCEPT !.weights = weights, !.err = FALSE]

GetWeights(s) == s.weights

-----------------------------------------------------------------------------
(* Values of the variables a specification does not use *)

NoGraph == [n |-> 0, edges |-> {}]
NoResult == [Scores |-> <<>>, Mode |-> "", SampleSize |-> 0, TotalNodes |-> 0,
             TimedOut |-> FALSE]
NoSampling == [nodes |-> <<>>, shuffled |-> <<>>, ref |-> "nodes", i |-> 0,
               k |-> 0, input |-> <<>>, draws |-> <<>>, ret |-> <<>>]
NoAnalyzer == [g |-> NoGraph, idToNode |-> <<>>, nodeToID |-> <<>>,
               issueMap |-> <<>>, panicked |-> FALSE]
NoStats == [InDegree |-> <<>>, OutDegree |-> <<>>, PageRank |-> <<>>,
            Betweenness |-> <<>>, Cycles |-> {}, TopologicalOrder |-> <<>>,
            CriticalPathScore |-> <<>>, Density |-> <<0, 1>>]

IdleConfig ==
    /\ nodeCount = 0 /\ edgeCount = 0 /\ cfg = ZeroConfig /\ sample = 0
    /\ skipped = <<>>

IdleBetweenness ==
    /\ sampleSize = 0 /\ pivots = <<>> /\ passes = 0
    /\ partialBC = <<>> /\ result = NoResult
    /\ sampling = NoSampling

NoPass == [active |-> FALSE, source |-> 0, stack |-> <<>>,
           st |-> [sigma |-> EmptyMap, pred |-> EmptyMap], i |-> 0,
           delta |-> EmptyMap]

IdleDeadline ==
    /\ pass = NoPass /\ expired = FALSE

NoScorer == [weights |-> 0, valid |-> {}, arg |-> 0, prev |-> 0, err |-> FALSE]

IdleFront ==
    /\ tree = NewTreeModel /\ scorer = NoScorer

IdlePool ==
    /\ pool = {} /\ bundles = <<>> /\ workers = <<>>

IdleAnalyzer ==
    /\ issues = <<>> /\ an = NoAnalyzer /\ stats = NoStats

-----------------------------------------------------------------------------
(* SpecConfig: the inputs, then one call *)

NodeCounts == 0 .. MaxNodeCount

\* Edge counts around the two density thresholds of nc, and the spec's examples.
EdgeCounts(nc) ==
    { e \in {0, 100, 1000, 50000, nc * (nc - 1)}
            \cup { (nc * (nc - 1)) \div 100 + d : d \in -1 .. 1 }
            \cup { (nc * (nc - 1)) \div 1000 + d : d \in -1 .. 1 } : e >= 0 }

InitConfig ==
    /\ pc = "input"
    /\ nodeCount \in NodeCounts
    /\ edgeCount \in EdgeCounts(nodeCount)
    /\ cfg = ZeroConfig
    /\ sample = 0
    /\ skipped = <<>>
    /\ IdleBetweenness
    /\ IdleAnalyzer
    /\ IdlePool
    /\ IdleDeadline
    /\ IdleFront

CallConfigForSize ==
    /\ pc = "input"
    /\ cfg' = ConfigForSize(nodeCount, edgeCount)
    /\ pc' = "config"
    /\ UNCHANGED <<nodeCount, edgeCount, sample, skipped, betweennessVars,
                   analyzerVars, poolVars, deadlineVars, frontVars>>

\* FullAnalysisConfig(), the configuration of --force-full-analysis.
CallFullAnalysisConfig ==
    /\ pc = "input"
    /\ cfg' = FullAnalysisConfig
    /\ pc' = "full"
    /\ UNCHANGED <<nodeCount, edgeCount, sample, skipped, betweennessVars,
                   analyzerVars, poolVars, deadlineVars, frontVars>>

\* cfg.SkippedMetrics() on the configuration ConfigForSize returned.
CallSkippedMetrics ==
    /\ pc = "config"
    /\ skipped' = SkippedMetrics(cfg)
    /\ pc' = "skipped"
    /\ UNCHANGED <<nodeCount, edgeCount, cfg, sample, betweennessVars,
                   analyzerVars, poolVars, deadlineVars, frontVars>>

CallRecommendSampleSize ==
    /\ pc = "input"
    /\ sample' = RecommendSampleSize(nodeCount, edgeCount)
    /\ pc' = "sample"
    /\ UNCHANGED <<nodeCount, edgeCount, cfg, skipped, betweennessVars,
                   analyzerVars, poolVars, deadlineVars, frontVars>>

NextConfig ==
    \/ CallConfigForSize
    \/ CallFullAnalysisConfig
    \/ CallSkippedMetrics
    \/ CallRecommendSampleSize

SpecConfig == InitConfig /\ [][NextConfig]_vars

-----------------------------------------------------------------------------
(* The calls on an analyzer, shared by Spec and SpecInput *)

CallNewAnalyzer ==
    /\ pc = "input"
    /\ LET a == NewAnalyzer(issues)
       IN  IF a.panicked
           THEN pc' = "panic" /\ an' = NoAnalyzer
           ELSE pc' = "built" /\ an' = a
    /\ UNCHANGED <<issues, stats, configVars, betweennessVars, poolVars,
                   deadlineVars, frontVars>>

\* Analyze, lines 83-174.  sort1, sort2: what topo.Sort returns at line 139
\* and at line 178 (inside computeHeights).
CallAnalyze ==
    /\ pc = "built"
    /\ \E ord \in NodeOrders(an.g), sorts \in {TopoSort(an.g)} :
         \E centrality \in {AnalyzeCentrality(an, ord)} :
           \E sort2 \in sorts, err \in {sort.err : sort \in sorts} :
             \E criticalPath \in {CriticalPath(an, err, sort2)} :
               \E sort1 \in {sort \in sorts : sort.err = err} :
                  stats' = centrality @@
                      [ TopologicalOrder |-> TopologicalOrder(an, sort1),
                        CriticalPathScore |-> criticalPath ]
    /\ pc' = "analyzed"
    /\ UNCHANGED <<issues, an, configVars, betweennessVars, poolVars,
                   deadlineVars, frontVars>>

-----------------------------------------------------------------------------
(* Spec: a well-formed issue list (distinct ids, blocking dependencies on     *)
(* other listed issues); NewAnalyzer; then Analyze, or ApproxBetweenness on   *)
(* the analyzer's graph, or one singleSourceBetweenness pass from each node   *)
(* into one accumulator.                                                      *)

\* The sets of at most m elements of P.
RECURSIVE SubsetsUpTo(_, _)
SubsetsUpTo(P, m) ==
    IF m = 0 THEN {{}}
    ELSE LET smaller == SubsetsUpTo(P, m - 1)
         IN  smaller \cup {E \cup {e} : E \in smaller, e \in P}

OutDeg(E, u) == Cardinality({e \in E : e[1] = u})
InDeg(E, u) == Cardinality({e \in E : e[2] = u})

\* Nodes are numbered by non-increasing out-degree and, among equal ones, by
\* non-decreasing in-degree: every graph has such a numbering, so every graph
\* shape of the bounds is an input.
DegreeOrdered(k, E) ==
    \A u \in 0 .. k - 2 :
        \/ OutDeg(E, u) > OutDeg(E, u + 1)
        \/ OutDeg(E, u) = OutDeg(E, u + 1) /\ InDeg(E, u) <= InDeg(E, u + 1)

Graphs ==
    UNION { { [n |-> k, edges |-> E] :
                E \in { F \in SubsetsUpTo({pr \in (0 .. k - 1) \X (0 .. k - 1) :
                                              pr[1] # pr[2]}, MaxEdges) :
                          DegreeOrdered(k, F) } } : k \in 0 .. MaxNodes }

IssueNames == <<"A", "B", "C", "D", "E", "F", "G", "H">>

RECURSIVE SeqOfSet(_)
SeqOfSet(S) ==
    IF S = {} THEN <<>>
    ELSE LET x == CHOOSE y \in S : \A z \in S : y <= z
         IN  <<x>> \o SeqOfSet(S \ {x})

\* The issue list whose dependency graph is gr: issue i depends on issue j
\* for every edge i -> j.
IssuesOf(gr) ==
    [i \in 1 .. gr.n |->
        [ID |-> IssueNames[i],
         Dependencies |->
            LET targets == SeqOfSet(From(gr, i - 1))
            IN  [j \in DOMAIN targets |->
                    [DependsOnID |-> IssueNames[targets[j] + 1],
                     Type |-> DepBlocks]]]]

\* Sample sizes: the small ones, and the two at the fallback's boundary.
SampleSizes(gr) == (0 .. MaxSample) \cup {gr.n, gr.n + 1}

\* Number of singleSourceBetweenness calls ApproxBetweenness makes (lines
\* 80-102): none on the two early returns, else one per pivot.
ApproxPasses(gr, k, draws, ord) ==
    IF gr.n = 0 \/ k >= gr.n THEN <<>> ELSE sampleNodes(ord, k, draws)

Init ==
    /\ pc = "input"
    /\ issues \in {IssuesOf(gr) : gr \in Graphs}
    /\ an = NoAnalyzer
    /\ stats = NoStats
    /\ IdleBetweenness
    /\ IdleConfig
    /\ IdlePool
    /\ IdleDeadline
    /\ IdleFront

\* The draws range over every outcome of the shuffle, so the enumeration
\* graph.NodesOf returns is taken in id order here: the other enumerations
\* give the same pivot sequences.
CallApproxBetweenness ==
    /\ pc = "built"
    /\ \E k \in SampleSizes(an.g) :
         \E draws \in Draws(an.g.n, k) :
            LET ord == [i \in 1 .. an.g.n |-> i - 1]
            IN  /\ sampleSize' = k
                /\ pivots' = ApproxPasses(an.g, k, draws, ord)
                /\ passes' = Len(pivots')
                /\ result' = ApproxBetweenness(an.g, k, draws, ord)
    /\ pc' = "approx"
    /\ UNCHANGED <<partialBC, sampling, configVars, analyzerVars, poolVars,
                   deadlineVars, frontVars>>

\* A full sweep: the pivots are all the nodes, the accumulator starts empty.
StartSweep ==
    /\ pc = "built"
    /\ \E ord \in NodeOrders(an.g) : pivots' = ord
    /\ partialBC' = EmptyMap
    /\ passes' = 0
    /\ pc' = "sweep"
    /\ UNCHANGED <<sampleSize, result, sampling, configVars, analyzerVars,
                   poolVars, deadlineVars, frontVars>>

SweepPass ==
    /\ pc = "sweep"
    /\ passes < Len(pivots)
    /\ \E ord \in NodeOrders(an.g) :
         partialBC' = singleSourceBetweenness(an.g, pivots[passes + 1], partialBC, ord)
    /\ passes' = passes + 1
    /\ UNCHANGED <<pc, sampleSize, pivots, result, sampling, configVars, analyzerVars,
                   poolVars, deadlineVars, frontVars>>

Next ==
    \/ CallNewAnalyzer
    \/ CallAnalyze
    \/ CallApproxBetweenness
    \/ StartSweep
    \/ SweepPass

Spec == Init /\ [][Next]_vars

-----------------------------------------------------------------------------
(* SpecInput: an arbitrary issue list written entry by entry (repeated ids,  *)
(* dependencies of any kind, on any id, listed or not); NewAnalyzer; Analyze *)

InputIDs == <<"A", "B", "C">>
DepTypes == {DepBlocks, DepRelated, DepParentChild}

TotalDeps(iss) ==
    LET RECURSIVE total(_)
        total(i) == IF i > Len(iss) THEN 0
                    ELSE Len(iss[i].Dependencies) + total(i + 1)
    IN  total(1)

InitInput ==
    /\ pc = "input"
    /\ issues = <<>>
    /\ an = NoAnalyzer
    /\ stats = NoStats
    /\ IdleBetweenness
    /\ IdleConfig
    /\ IdlePool
    /\ IdleDeadline
    /\ IdleFront

\* A new issue takes an id already in the list or the first id not yet in it.
AddIssue(k) ==
    /\ pc = "input"
    /\ Len(issues) < MaxIssues
    /\ \A j \in 1 .. k - 1 : \E i \in DOMAIN issues : issues[i].ID = InputIDs[j]
    /\ issues' = Append(issues, [ID |-> InputIDs[k], Dependencies |-> <<>>])
    /\ UNCHANGED <<pc, an, stats, configVars, betweennessVars, poolVars,
                   deadlineVars, frontVars>>

\* One more entry in the dependency list of the issue written last.
AddDependency(target, type) ==
    /\ pc = "input"
    /\ issues # <<>>
    /\ TotalDeps(issues) < MaxDeps
    /\ issues' = [issues EXCEPT ![Len(issues)].Dependencies =
                     Append(@, [DependsOnID |-> target, Type |-> type])]
    /\ UNCHANGED <<pc, an, stats, configVars, betweennessVars, poolVars,
                   deadlineVars, frontVars>>

NextInput ==
    \/ \E k \in DOMAIN InputIDs : AddIssue(k)
    \/ \E target \in Range(InputIDs), type \in DepTypes : AddDependency(target, type)
    \/ CallNewAnalyzer
    \/ CallAnalyze

SpecInput == InitInput /\ [][NextInput]_vars

-----------------------------------------------------------------------------
(* SpecSample: one call of sampleNodes(nodes, k), statement by statement      *)

SampleInputs ==
    UNION { NodeOrders([n |-> n, edges |-> {}]) : n \in 0 .. MaxNodes }

InitSample ==
    /\ pc = "input"
    /\ \E nodes \in SampleInputs, k \in 0 .. MaxNodes + 1 :
          /\ k <= Len(nodes) + 1
          /\ sampling = SampleFrame(nodes, k)
    /\ sampleSize = 0 /\ pivots = <<>> /\ passes = 0
    /\ partialBC = <<>> /\ result = NoResult
    /\ IdleAnalyzer
    /\ IdleConfig
    /\ IdlePool
    /\ IdleDeadline
    /\ IdleFront

\* Lines 119-125: the early return, or the copy.
SampleEnter ==
    /\ pc = "input"
    /\ IF sampling.k >= Len(sampling.nodes)
       THEN /\ sampling' = [sampling EXCEPT !.ret = sampling.nodes]
            /\ pc' = "sampled"
       ELSE /\ sampling' = CopyNodes(sampling)
            /\ pc' = "shuffle"
    /\ UNCHANGED <<sampleSize, pivots, passes, partialBC, result, configVars,
                   analyzerVars, poolVars, deadlineVars, frontVars>>

\* Lines 129-132: one iteration of the shuffle loop.
SampleSwap ==
    /\ pc = "shuffle"
    /\ sampling.i < sampling.k
    /\ \E d \in 0 .. Len(sampling[sampling.ref]) - sampling.i - 1 :
          sampling' = SwapStep(sampling, d)
    /\ UNCHANGED <<pc, sampleSize, pivots, passes, partialBC, result, configVars,
                   analyzerVars, poolVars, deadlineVars, frontVars>>

\* Line 134: return shuffled[:k].
SampleReturn ==
    /\ pc = "shuffle"
    /\ sampling.i >= sampling.k
    /\ sampling' = [sampling EXCEPT
                       !.ret = SubSeq(sampling[sampling.ref], 1, sampling.k)]
    /\ pc' = "sampled"
    /\ UNCHANGED <<sampleSize, pivots, passes, partialBC, result, configVars,
                   analyzerVars, poolVars, deadlineVars, frontVars>>

NextSample ==
    \/ SampleEnter
    \/ SampleSwap
    \/ SampleReturn

SpecSample == InitSample /\ [][NextSample]_vars

-----------------------------------------------------------------------------
(* The pooled pass called by workers.  Each call: Get, reset and pass, Put.   *)
(* SpecPool: one caller, passes on changing graphs and pivots.                *)
(* SpecWorkers: MaxWorkers concurrent callers.                                *)

IdleWorker == [pc |-> "idle", buf |-> 0, gr |-> NoGraph, source |-> 0,
               bc |-> EmptyMap, prior |-> NewBuffers]

Held == {workers[w].buf : w \in DOMAIN workers} \ {0}

\* Get hands out a bundle of the pool and leaves it in the pool.
PoolGetLeavesInPool(w, gr, source) ==
    /\ workers[w].pc = "idle"
    /\ \E b \in DOMAIN bundles :
          /\ \/ b \in pool /\ UNCHANGED bundles
             \/ b \notin pool /\ b \notin Held
                /\ bundles' = [bundles EXCEPT ![b] = NewBuffers]
          /\ pool' = pool
          /\ workers' = [workers EXCEPT ![w] =
                 [pc |-> "holding", buf |-> b, gr |-> gr, source |-> source,
                  bc |-> EmptyMap, prior |-> bundles'[b]]]
    /\ UNCHANGED <<pc, configVars, betweennessVars, analyzerVars, deadlineVars,
                   frontVars>>

\* buf := brandesPool.Get(): a bundle of the pool, which leaves the pool, or,
\* as sync.Pool may always do, a newly allocated one.  The bundle ids bound
\* the bundles allocated at a time.  prior: the bundle as checked out.
PoolGet(w, gr, source) ==
    /\ workers[w].pc = "idle"
    /\ \E b \in DOMAIN bundles :
          /\ \/ b \in pool /\ UNCHANGED bundles
             \/ b \notin pool /\ b \notin Held
                /\ bundles' = [bundles EXCEPT ![b] = NewBuffers]
          /\ pool' = pool \ {b}
          /\ workers' = [workers EXCEPT ![w] =
                 [pc |-> "holding", buf |-> b, gr |-> gr, source |-> source,
                  bc |-> EmptyMap, prior |-> bundles'[b]]]
    /\ UNCHANGED <<pc, configVars, betweennessVars, analyzerVars, deadlineVars,
                   frontVars>>

\* buf.reset(nodes) and the pass, adding into the caller's accumulator.
PoolPass(w) ==
    /\ workers[w].pc = "holding"
    /\ \E ord \in NodeOrders(workers[w].gr) :
          \E out \in {singleSourceBetweennessPooled(workers[w].gr,
                          workers[w].source, workers[w].bc, ord,
                          bundles[workers[w].buf])} :
             /\ bundles' = [bundles EXCEPT ![workers[w].buf] = out.buf]
             /\ workers' = [workers EXCEPT ![w].pc = "done", ![w].bc = out.bc]
    /\ UNCHANGED <<pc, pool, configVars, betweennessVars, analyzerVars,
                   deadlineVars, frontVars>>

\* The deferred brandesPool.Put(buf), when the pass returns.
PoolPut(w) ==
    /\ workers[w].pc = "done"
    /\ pool' = pool \cup {workers[w].buf}
    /\ workers' = [workers EXCEPT ![w] = IdleWorker]
    /\ UNCHANGED <<pc, bundles, configVars, betweennessVars, analyzerVars,
                   deadlineVars, frontVars>>

\* The garbage collector drops a bundle of the pool.
PoolEvict ==
    /\ \E b \in pool : pool' = pool \ {b}
    /\ UNCHANGED <<pc, bundles, workers, configVars, betweennessVars, analyzerVars,
                   deadlineVars, frontVars>>

PoolGraphs ==
    {gr \in Graphs : gr.n >= 1 /\ gr.n <= MaxPoolNodes
                      /\ Cardinality(gr.edges) < MaxPoolNodes}

InitPool ==
    /\ pc = "input"
    /\ pool = {}
    /\ workers = [w \in {1} |-> IdleWorker]
    /\ bundles = [b \in {1} |-> NewBuffers]
    /\ IdleBetweenness
    /\ IdleAnalyzer
    /\ nodeCount = 0 /\ edgeCount = 0 /\ cfg = ZeroConfig /\ sample = 0
    /\ skipped = <<>>
    /\ IdleDeadline
    /\ IdleFront

NextPool ==
    \/ \E w \in DOMAIN workers, gr \in PoolGraphs :
          \E source \in Nodes(gr) : PoolGet(w, gr, source)
    \/ \E w \in DOMAIN workers : PoolPass(w)
    \/ \E w \in DOMAIN workers : PoolPut(w)
    \/ PoolEvict

SpecPool == InitPool /\ [][NextPool]_vars

WorkerGraph == [n |-> 3, edges |-> {<<0, 1>>, <<1, 2>>}]

InitWorkers ==
    /\ pc = "input"
    /\ pool = {}
    /\ workers = [w \in 1 .. MaxWorkers |-> IdleWorker]
    /\ bundles = [b \in 1 .. MaxWorkers |-> NewBuffers]
    /\ IdleBetweenness
    /\ IdleAnalyzer
    /\ nodeCount = 0 /\ edgeCount = 0 /\ cfg = ZeroConfig /\ sample = 0
    /\ skipped = <<>>
    /\ IdleDeadline
    /\ IdleFront

NextWorkers ==
    \/ \E w \in DOMAIN workers, source \in Nodes(WorkerGraph) :
          PoolGet(w, WorkerGraph, source)
    \/ \E w \in DOMAIN workers : PoolPass(w)
    \/ \E w \in DOMAIN workers : PoolPut(w)
    \/ PoolEvict

SpecWorkers == InitWorkers /\ [][NextWorkers]_vars

-----------------------------------------------------------------------------
(* SpecDeadline: the sampled branch of ApproxBetweenness, one iteration of    *)
(* the accumulation loop at a time, while the betweenness deadline of the     *)
(* configuration may pass.  The code reads no clock and takes no deadline.    *)

InitDeadline ==
    /\ pc = "input"
    /\ issues \in {IssuesOf(gr) : gr \in PoolGraphs}
    /\ an = NoAnalyzer
    /\ stats = NoStats
    /\ IdleBetweenness
    /\ IdleConfig
    /\ IdlePool
    /\ IdleDeadline
    /\ IdleFront

\* Lines 69-96 with 0 < sampleSize < n: the pivots are drawn.
ApproxStart ==
    /\ pc = "built"
    /\ \E k \in 1 .. MaxSample :
          /\ k < an.g.n
          /\ \E draws \in Draws(an.g.n, k) :
                pivots' = sampleNodes([i \in 1 .. an.g.n |-> i - 1], k, draws)
          /\ sampleSize' = k
    /\ partialBC' = EmptyMap
    /\ passes' = 0
    /\ pc' = "sampling"
    /\ UNCHANGED <<result, sampling, configVars, analyzerVars, poolVars,
                   deadlineVars, frontVars>>

\* Lines 100-101 and 142-232: the next pivot's pass starts and builds sigma
\* and pred.
PassBegin ==
    /\ pc = "sampling"
    /\ ~pass.active
    /\ passes < Len(pivots)
    /\ \E ord \in NodeOrders(an.g) :
          \E ps \in {PassState(an.g, pivots[passes + 1], ord, FreshBuffers(an.g))} :
             pass' = [active |-> TRUE, source |-> pivots[passes + 1],
                      stack |-> ps.stack, st |-> ps.st, i |-> Len(ps.stack),
                      delta |-> FreshBuffers(an.g).delta]
    /\ UNCHANGED <<pc, sampleSize, pivots, passes, partialBC, result, sampling,
                   expired, configVars, analyzerVars, poolVars,
                   frontVars>>

\* Lines 236-252: one iteration of the accumulation loop, adding into the
\* accumulator of ApproxBetweenness.
PassStep ==
    /\ pc = "sampling"
    /\ pass.active
    /\ pass.i >= 1
    /\ \E acc \in {AccumulateStep(pass.source, pass.st, pass.stack, pass.i,
                                   [delta |-> pass.delta, bc |-> partialBC])} :
          /\ partialBC' = acc.bc
          /\ pass' = [pass EXCEPT !.i = pass.i - 1, !.delta = acc.delta]
    /\ UNCHANGED <<pc, sampleSize, pivots, passes, result, sampling, expired,
                   configVars, analyzerVars, poolVars, frontVars>>

\* Line 254: the pass returns.
PassEnd ==
    /\ pc = "sampling"
    /\ pass.active
    /\ pass.i < 1
    /\ pass' = NoPass
    /\ passes' = passes + 1
    /\ UNCHANGED <<pc, sampleSize, pivots, partialBC, result, sampling, expired,
                   configVars, analyzerVars, poolVars, frontVars>>

\* Lines 104-113: scaling and return.
ApproxReturn ==
    /\ pc = "sampling"
    /\ ~pass.active
    /\ passes = Len(pivots)
    /\ result' = [Scores |-> Scaled(partialBC, an.g.n, sampleSize),
                  Mode |-> BetweennessApproximate, SampleSize |-> sampleSize,
                  TotalNodes |-> an.g.n, TimedOut |-> FALSE]
    /\ pc' = "approx"
    /\ UNCHANGED <<sampleSize, pivots, passes, partialBC, sampling, configVars,
                   analyzerVars, poolVars, deadlineVars, frontVars>>

\* The time budget of the configuration runs out.
DeadlineExpires ==
    /\ pc = "sampling"
    /\ ~expired
    /\ expired' = TRUE
    /\ UNCHANGED <<pc, pass, configVars, betweennessVars, analyzerVars, poolVars,
                   frontVars>>

NextDeadline ==
    \/ CallNewAnalyzer
    \/ ApproxStart
    \/ PassBegin
    \/ PassStep
    \/ PassEnd
    \/ ApproxReturn
    \/ DeadlineExpires

SpecDeadline == InitDeadline /\ [][NextDeadline]_vars

-----------------------------------------------------------------------------
(* SpecLists: a whole issue list with blocking dependencies only (ids may    *)
(* repeat, a dependency may be listed twice or name no issue); NewAnalyzer;  *)
(* Analyze.                                                                  *)

\* The id sequences of length n: each id is one already used or the first
\* unused one.
RECURSIVE IDPatterns(_)
IDPatterns(n) ==
    IF n = 0 THEN {<<>>}
    ELSE UNION { { Append(p, InputIDs[k]) :
                     k \in {j \in DOMAIN InputIDs :
                               \A h \in 1 .. j - 1 : InputIDs[h] \in Range(p)} } :
                 p \in IDPatterns(n - 1) }

\* No dependency, one, or the same one listed twice.
BlockingDepLists ==
    {<<>>} \cup
    UNION { { <<[DependsOnID |-> t, Type |-> DepBlocks]>>,
              <<[DependsOnID |-> t, Type |-> DepBlocks],
                [DependsOnID |-> t, Type |-> DepBlocks]>> } : t \in Range(InputIDs) }

\* The lists of at most m issues.
InputLists(m) ==
    UNION { { [i \in 1 .. n |-> [ID |-> ids[i], Dependencies |-> deps[i]]] :
                ids \in IDPatterns(n), deps \in [1 .. n -> BlockingDepLists] } :
            n \in 0 .. m }

InitLists ==
    /\ pc = "input"
    /\ issues \in InputLists(MaxListIssues)
    /\ an = NoAnalyzer
    /\ stats = NoStats
    /\ IdleBetweenness
    /\ IdleConfig
    /\ IdlePool
    /\ IdleDeadline
    /\ IdleFront

NextLists ==
    \/ CallNewAnalyzer
    \/ CallAnalyze

SpecLists == InitLists /\ [][NextLists]_vars

-----------------------------------------------------------------------------
(* SpecTree: a TreeModel, new or holding a tree with its visible list, and    *)
(* the calls of its methods in any order.                                     *)

\* The forests on 1 .. n: every node's parent has a smaller number (0: none),
\* siblings are kept in increasing order.
Forests(n) == {par \in [1 .. n -> 0 .. n - 1] : \A v \in 1 .. n : par[v] < v}

ChildrenOf(par, v) ==
    SeqOfSet({c \in DOMAIN par : par[c] = v})

PopulatedTrees ==
    UNION { { rebuildFlatList(
                 [nodes |-> [v \in 1 .. n |->
                                [Children |-> ChildrenOf(par, v),
                                 Expanded |-> v \in ex, Parent |-> par[v]]],
                  roots |-> ChildrenOf(par, 0), flatList |-> <<>>,
                  cursor |-> 0, built |-> TRUE]) :
              par \in Forests(n), ex \in SUBSET (1 .. n) } : n \in 0 .. MaxTreeNodes }

\* The issue lists handed to Build: distinct ids, at most one dependency each,
\* of any type, on an earlier issue of the list.
TreeIssueLists ==
    UNION { { deps \in [1 .. n -> {<<>>} \cup
                                  {<<[DependsOnID |-> InputIDs[d], Type |-> ty]>> :
                                       d \in 1 .. n, ty \in DepTypes}] :
                \A i \in 1 .. n :
                    deps[i] # <<>> =>
                        \E d \in 1 .. i - 1 :
                            deps[i][1].DependsOnID = InputIDs[d] } :
            n \in 0 .. MaxIssues }

InitTree ==
    /\ pc = "tree"
    /\ tree \in {NewTreeModel} \cup PopulatedTrees
    /\ scorer = NoScorer
    /\ IdleAnalyzer
    /\ IdleBetweenness
    /\ IdleConfig
    /\ IdlePool
    /\ IdleDeadline

CallBuild ==
    /\ \E deps \in TreeIssueLists :
          issues' = [i \in DOMAIN deps |->
                        [ID |-> InputIDs[i], Dependencies |-> deps[i]]]
    /\ tree' = Build(tree, issues')
    /\ pc' = "Build"
    /\ UNCHANGED <<an, stats, scorer, configVars, betweennessVars, poolVars,
                   deadlineVars>>

CallMoveDown ==
    /\ tree' = MoveDown(tree)
    /\ pc' = "MoveDown"
    /\ UNCHANGED <<scorer, configVars, betweennessVars, analyzerVars, poolVars,
                   deadlineVars>>

CallMoveUp ==
    /\ tree' = MoveUp(tree)
    /\ pc' = "MoveUp"
    /\ UNCHANGED <<scorer, configVars, betweennessVars, analyzerVars, poolVars,
                   deadlineVars>>

CallJumpToTop ==
    /\ tree' = JumpToTop(tree)
    /\ pc' = "JumpToTop"
    /\ UNCHANGED <<scorer, configVars, betweennessVars, analyzerVars, poolVars,
                   deadlineVars>>

CallJumpToBottom ==
    /\ tree' = JumpToBottom(tree)
    /\ pc' = "JumpToBottom"
    /\ UNCHANGED <<scorer, configVars, betweennessVars, analyzerVars, poolVars,
                   deadlineVars>>

CallToggleExpand ==
    /\ tree' = ToggleExpand(tree)
    /\ pc' = "ToggleExpand"
    /\ UNCHANGED <<scorer, configVars, betweennessVars, analyzerVars, poolVars,
                   deadlineVars>>

CallExpandAll ==
    /\ tree' = ExpandAll(tree)
    /\ pc' = "ExpandAll"
    /\ UNCHANGED <<scorer, configVars, betweennessVars, analyzerVars, poolVars,
                   deadlineVars>>

CallCollapseAll ==
    /\ tree' = CollapseAll(tree)
    /\ pc' = "CollapseAll"
    /\ UNCHANGED <<scorer, configVars, betweennessVars, analyzerVars, poolVars,
                   deadlineVars>>

NextTree ==
    \/ CallBuild
    \/ CallMoveDown
    \/ CallMoveUp
    \/ CallJumpToTop
    \/ CallJumpToBottom
    \/ CallToggleExpand
    \/ CallExpandAll
    \/ CallCollapseAll

SpecTree == InitTree /\ [][NextTree]_vars

-----------------------------------------------------------------------------
(* SpecScorer: a hybridScorer and calls of Configure.                         *)

WeightValues == 1 .. MaxWeights

InitScorer ==
    /\ pc = "scorer"
    /\ scorer \in [weights : WeightValues, valid : SUBSET WeightValues,
                    arg : {0}, prev : {0}, err : {FALSE}]
    /\ tree = NewTreeModel
    /\ IdleAnalyzer
    /\ IdleBetweenness
    /\ IdleConfig
    /\ IdlePool
    /\ IdleDeadline

\* arg and prev record the argument and the weights before the call.
CallConfigure ==
    /\ \E weights \in WeightValues :
          scorer' = [Configure(scorer, weights) EXCEPT
                        !.arg = weights, !.prev = GetWeights(scorer)]
    /\ pc' = "Configure"
    /\ UNCHANGED <<tree, configVars, betweennessVars, analyzerVars, poolVars,
                   deadlineVars>>

NextScorer ==
    \/ CallConfigure

SpecScorer == InitScorer /\ [][NextScorer]_vars

-----------------------------------------------------------------------------
(* Properties *)

AllIDs == {issues[i].ID : i \in DOMAIN issues}

\* No walk returns to its start: the graph has no cycle.
Acyclic(gr) ==
    \A v \in Nodes(gr) : \A len \in 1 .. gr.n : Walks(gr, v, v, len) = 0

\* Number of nodes on a longest path that starts at u (in an acyclic graph).
LongestChain(gr, u) ==
    LET lens == {len \in 0 .. gr.n - 1 : \E t \in Nodes(gr) : Walks(gr, u, t, len) > 0}
    IN  1 + CHOOSE l \in lens : \A m \in lens : m <= l

ChainABC == [n |-> 3, edges |-> {<<0, 1>>, <<1, 2>>}]
CycleAB == [n |-> 2, edges |-> {<<0, 1>>, <<1, 0>>}]

\* C1: ConfigForSize selects Exact below 500 nodes; from 500 to 1999 nodes
\* Approximate when density = edgeCount/(nodeCount*(nodeCount-1)) < 0.01 and
\* Skip otherwise; Approximate from 2000 nodes on whatever the density.
\* (50,100) is Exact, (1500,1000) Approximate with sample size 100,
\* (1500,50000) Skip with a non-empty reason.
C1_ModeBySizeAndDensity ==
    pc = "config" =>
        /\ cfg.BetweennessMode =
              IF nodeCount < 500 THEN BetweennessExact
              ELSE IF nodeCount < 2000
                   THEN IF 100 * edgeCount < nodeCount * (nodeCount - 1)
                        THEN BetweennessApproximate ELSE BetweennessSkip
                   ELSE BetweennessApproximate
        /\ nodeCount = 50 /\ edgeCount = 100
              => cfg.BetweennessMode = BetweennessExact
        /\ nodeCount = 1500 /\ edgeCount = 1000
              => /\ cfg.BetweennessMode = BetweennessApproximate
                 /\ cfg.BetweennessSampleSize = 100
        /\ nodeCount = 1500 /\ edgeCount = 50000
              => /\ cfg.BetweennessMode = BetweennessSkip
                 /\ cfg.BetweennessSkipReason # ""

C1_Witness ==
    /\ pc = "config" /\ nodeCount = 1500 /\ edgeCount = 50000
    /\ cfg.BetweennessMode = BetweennessSkip

\* C2: a configuration of Approximate mode returned by ConfigForSize has a
\* sample size s with 1 <= s < nodeCount, so the engine's fallback to exact
\* (sampleSize >= nodeCount) is not triggered by it.
C2_SampleSizeBelowNodeCount ==
    pc = "config" /\ cfg.BetweennessMode = BetweennessApproximate =>
        /\ 1 <= cfg.BetweennessSampleSize
        /\ cfg.BetweennessSampleSize < nodeCount

C2_Witness ==
    /\ pc = "config" /\ nodeCount = 500
    /\ cfg.BetweennessMode = BetweennessApproximate
    /\ cfg.BetweennessSampleSize = 100

\* C3 as stated: RecommendSampleSize gives 50 below 100 nodes, max(n/5, 50)
\* from 100 to 499, 100 from 500 to 1999 and 200 from 2000 on.
C3_AsStated ==
    pc = "sample" =>
        sample = IF nodeCount < 100 THEN 50
                 ELSE IF nodeCount < 500 THEN Max(nodeCount \div 5, 50)
                 ELSE IF nodeCount < 2000 THEN 100
                 ELSE 200

\* C3 amended: RecommendSampleSize gives nodeCount itself below 100 nodes,
\* max(n/5, 50) from 100 to 499, 100 from 500 to 1999 and 200 from 2000 on;
\* the edge count never changes the result.
C3_StepFunctionOfNodeCount ==
    pc = "sample" =>
        /\ sample = IF nodeCount < 100 THEN nodeCount
                    ELSE IF nodeCount < 500 THEN Max(nodeCount \div 5, 50)
                    ELSE IF nodeCount < 2000 THEN 100
                    ELSE 200
        /\ \A e \in EdgeCounts(nodeCount) :
              RecommendSampleSize(nodeCount, e) = sample

C3_Witness ==
    pc = "sample" /\ nodeCount = 60 /\ sample = 60

\* C4: on a graph of n >= 1 nodes, ApproxBetweenness with sampleSize >= n
\* returns the exact betweenness scores and reports Mode = exact, SampleSize
\* = n; with 0 < sampleSize < n it reports Mode = approximate and SampleSize
\* = sampleSize.
C4_FallbackToExact ==
    pc = "approx" /\ an.g.n >= 1 =>
        /\ sampleSize >= an.g.n =>
              /\ \A v \in Nodes(an.g) :
                    MapGet(result.Scores, v, RInt(0)) = ExactScores(an.g)[v]
              /\ result.Mode = BetweennessExact
              /\ result.SampleSize = an.g.n
        /\ 0 < sampleSize /\ sampleSize < an.g.n =>
              /\ result.Mode = BetweennessApproximate
              /\ result.SampleSize = sampleSize

C4_Witness ==
    /\ pc = "approx" /\ an.g.n = 4 /\ sampleSize = 4
    /\ result.Mode = BetweennessExact
    /\ \E v \in DOMAIN result.Scores : result.Scores[v] = <<1, 2>>

\* C5: every score ApproxBetweenness returns, sampled scores after scaling
\* included, lies in [0, (n-1)(n-2)].
C5_ScoresWithinDirectedBound ==
    pc = "approx" =>
        \A v \in DOMAIN result.Scores :
            /\ RLe(RInt(0), result.Scores[v])
            /\ RLe(result.Scores[v], RInt((an.g.n - 1) * (an.g.n - 2)))

\* C6: one singleSourceBetweenness pass from each node of the graph into one
\* initially empty accumulator leaves every node with its exact betweenness,
\* the sum over ordered pairs (s,t), s # v # t, of the share of shortest s-t
\* paths through v.
C6_FullSweepIsExact ==
    pc = "sweep" /\ passes = an.g.n =>
        \A v \in Nodes(an.g) :
            MapGet(partialBC, v, RInt(0)) = ExactScores(an.g)[v]

C6_Witness ==
    /\ pc = "sweep" /\ passes = an.g.n /\ an.g.n = 4
    /\ \E v \in DOMAIN partialBC : partialBC[v] = <<1, 2>>

\* C7: on an acyclic graph every issue has a height; it is 1 for an issue
\* with no dependency and otherwise 1 + the largest height among the issues
\* it depends on, which is the number of nodes on the longest dependency
\* chain starting at it; on A->B->C the heights are A=3, B=2, C=1.
C7_HeightsAreLongestChains ==
    pc = "analyzed" /\ Acyclic(an.g) =>
        LET h == stats.CriticalPathScore
        IN  /\ DOMAIN h = AllIDs
            /\ \A u \in Nodes(an.g) :
                  /\ h[an.nodeToID[u]] = LongestChain(an.g, u)
                  /\ From(an.g, u) = {} => h[an.nodeToID[u]] = 1
                  /\ From(an.g, u) # {} =>
                        /\ \A v \in From(an.g, u) :
                              h[an.nodeToID[u]] >= 1 + h[an.nodeToID[v]]
                        /\ \E v \in From(an.g, u) :
                              h[an.nodeToID[u]] = 1 + h[an.nodeToID[v]]
            /\ an.g = ChainABC => h["A"] = 3 /\ h["B"] = 2 /\ h["C"] = 1

C7_Witness ==
    /\ pc = "analyzed" /\ an.g = ChainABC
    /\ stats.CriticalPathScore["A"] = 3

\* C8: with a cycle in the dependency graph Analyze returns an empty
\* CriticalPathScore and an empty TopologicalOrder, reports the cycles, and
\* still gives InDegree, OutDegree and PageRank an entry for every issue.
C8_CycleDisablesDagStats ==
    pc = "analyzed" /\ ~Acyclic(an.g) =>
        /\ stats.CriticalPathScore = EmptyMap
        /\ stats.TopologicalOrder = <<>>
        /\ stats.Cycles # {}
        /\ \A c \in stats.Cycles :
              /\ c[1] = c[Len(c)]
              /\ \A i \in 1 .. Len(c) - 1 :
                    <<an.idToNode[c[i]], an.idToNode[c[i + 1]]>> \in an.g.edges
        /\ an.g = CycleAB => <<"A", "B", "A">> \in stats.Cycles
        /\ DOMAIN stats.InDegree = AllIDs
        /\ DOMAIN stats.OutDegree = AllIDs
        /\ DOMAIN stats.PageRank = AllIDs
        /\ \A u \in Nodes(an.g) :
              /\ stats.InDegree[an.nodeToID[u]] = Cardinality(To(an.g, u))
              /\ stats.OutDegree[an.nodeToID[u]] = Cardinality(From(an.g, u))

C8_Witness ==
    /\ pc = "analyzed" /\ an.g = CycleAB
    /\ stats.Cycles = {<<"A", "B", "A">>}
    /\ stats.InDegree["A"] = 1 /\ stats.InDegree["B"] = 1

C10_OnlyBlockingDependenciesMakeEdges ==
    pc = "built" =>
        \A e \in an.g.edges :
            \E i \in DOMAIN issues :
                /\ an.idToNode[issues[i].ID] = e[1]
                /\ \E j \in DOMAIN issues[i].Dependencies :
                      /\ issues[i].Dependencies[j].DependsOnID = an.nodeToID[e[2]]
                      /\ issues[i].Dependencies[j].Type = DepBlocks

\* The issue list without the dependency entries that name no listed issue.
StripDangling(iss) ==
    LET ids == {iss[i].ID : i \in DOMAIN iss}
    IN  [i \in DOMAIN iss |->
            [iss[i] EXCEPT !.Dependencies =
                SelectSeq(@, LAMBDA d : d.DependsOnID \in ids)]]

\* C11: for every issue list, lists with a repeated identifier included,
\* idToNode and nodeToID are mutually inverse bijections between the issue
\* identifiers and the node ids of the graph, which has one node per
\* identifier, from NewAnalyzer to the end of Analyze.
C11_IdMapsAreInverseBijections ==
    pc \in {"built", "analyzed"} =>
        /\ DOMAIN an.idToNode = AllIDs
        /\ DOMAIN an.nodeToID = Nodes(an.g)
        /\ an.g.n = Cardinality(AllIDs)
        /\ \A id \in AllIDs : an.nodeToID[an.idToNode[id]] = id
        /\ \A v \in Nodes(an.g) : an.idToNode[an.nodeToID[v]] = v

\* C12: an issue that lists itself as a dependency crashes neither the
\* construction of the graph nor a later traversal.
C12_SelfDependencyDoesNotCrash ==
    (\E i \in DOMAIN issues : \E j \in DOMAIN issues[i].Dependencies :
        issues[i].Dependencies[j].DependsOnID = issues[i].ID)
    => pc # "panic"

\* C13: a dependency on an id that no issue of the list carries adds no edge
\* and no node and raises no error: NewAnalyzer builds what it builds from
\* the list without that entry, and fails only if it fails without it.
C13_DanglingDependencyIgnored ==
    LET a == NewAnalyzer(StripDangling(issues))
    IN  /\ pc = "built" =>
              /\ ~a.panicked
              /\ an.g = a.g
              /\ an.idToNode = a.idToNode
              /\ an.nodeToID = a.nodeToID
              /\ an.g.n = Len(issues)
              /\ \A e \in an.g.edges : e[1] \in Nodes(an.g) /\ e[2] \in Nodes(an.g)
        /\ pc = "panic" => a.panicked

C13_Witness ==
    /\ pc = "built"
    /\ StripDangling(issues) # issues
    /\ an.g.edges # {}

\* C14: the configuration of a forced full analysis is the same for every
\* (nodeCount, edgeCount): exact betweenness, every metric enabled, and each
\* time budget and MaxCyclesToStore at least what ConfigForSize gives for
\* that (nodeCount, edgeCount).
C14_FullConfigDominates ==
    pc = "full" =>
        LET c == ConfigForSize(nodeCount, edgeCount)
        IN  /\ cfg.BetweennessMode = BetweennessExact
            /\ cfg.ComputeBetweenness /\ cfg.ComputePageRank /\ cfg.ComputeHITS
            /\ cfg.ComputeCycles /\ cfg.ComputeEigenvector
            /\ cfg.ComputeCriticalPath
            /\ cfg.BetweennessTimeout = 30000 /\ cfg.PageRankTimeout = 30000
            /\ cfg.HITSTimeout = 30000 /\ cfg.CyclesTimeout = 30000
            /\ cfg.MaxCyclesToStore = 10000
            /\ cfg.BetweennessTimeout >= c.BetweennessTimeout
            /\ cfg.PageRankTimeout >= c.PageRankTimeout
            /\ cfg.HITSTimeout >= c.HITSTimeout
            /\ cfg.CyclesTimeout >= c.CyclesTimeout
            /\ cfg.MaxCyclesToStore >= c.MaxCyclesToStore

C14_Witness ==
    /\ pc = "full" /\ nodeCount = 50 /\ edgeCount = 100
    /\ cfg.BetweennessTimeout = 30000
    /\ ConfigForSize(nodeCount, edgeCount).BetweennessTimeout = 2000

\* The metrics a configuration disables, with the reason it carries for each.
DisabledMetrics(c) ==
    {m \in { [Name |-> "Betweenness", on |-> c.ComputeBetweenness,
              Reason |-> c.BetweennessSkipReason],
             [Name |-> "PageRank", on |-> c.ComputePageRank,
              Reason |-> c.PageRankSkipReason],
             [Name |-> "HITS", on |-> c.ComputeHITS,
              Reason |-> c.HITSSkipReason],
             [Name |-> "Cycles", on |-> c.ComputeCycles,
              Reason |-> c.CyclesSkipReason] } : ~m.on}

\* C15: in a configuration returned by ConfigForSize every disabled metric
\* among Betweenness, PageRank, HITS and Cycles has a non-empty skip reason,
\* BetweennessMode is skip exactly when ComputeBetweenness is false, and
\* SkippedMetrics lists exactly the disabled metrics, each with its reason.
C15_SkipReasonsReported ==
    pc \in {"config", "skipped"} =>
        /\ \A m \in DisabledMetrics(cfg) : m.Reason # ""
        /\ (cfg.BetweennessMode = BetweennessSkip) <=> ~cfg.ComputeBetweenness
        /\ pc = "skipped" =>
              /\ Len(skipped) = Cardinality(DisabledMetrics(cfg))
              /\ \A m \in DisabledMetrics(cfg) :
                    \E i \in DOMAIN skipped :
                        skipped[i] = [Name |-> m.Name, Reason |-> m.Reason]

C15_Witness ==
    /\ pc = "skipped" /\ nodeCount >= 2000
    /\ Len(skipped) = 2
    /\ skipped[1].Name = "HITS" /\ skipped[2].Name = "Cycles"

\* C16: for 0 <= k < len(nodes), whatever the random draws, sampleNodes
\* returns k pairwise distinct nodes of its input and leaves the caller's
\* slice as it was.
C16_SampleIsKDistinctNodes ==
    pc = "sampled" /\ sampling.k < Len(sampling.input) =>
        /\ Len(sampling.ret) = sampling.k
        /\ \A a, b \in DOMAIN sampling.ret :
              sampling.ret[a] = sampling.ret[b] => a = b
        /\ Range(sampling.ret) \subseteq Range(sampling.input)
        /\ sampling.nodes = sampling.input
        /\ sampling.ret = sampleNodes(sampling.input, sampling.k, sampling.draws)

C16_Witness ==
    /\ pc = "sampled" /\ sampling.k = 2 /\ Len(sampling.input) = 4
    /\ sampling.ret[1] # sampling.input[1]
    /\ sampling.ret[2] # sampling.input[2]

\* The entry-wise sum of two score maps.
MapAdd(m1, m2) ==
    [id \in DOMAIN m1 \cup DOMAIN m2 |->
        RAdd(MapGet(m1, id, RInt(0)), MapGet(m2, id, RInt(0)))]

\* Each pivot of the set runs its pass into a map of its own; the maps are
\* then summed.  The result is a function of the set alone.
RECURSIVE MergedPasses(_, _)
MergedPasses(gr, pivotSet) ==
    IF pivotSet = {} THEN EmptyMap
    ELSE LET p == CHOOSE x \in pivotSet : \A y \in pivotSet : x <= y
             ord == [i \in 1 .. gr.n |-> i - 1]
         IN  MapAdd(singleSourceBetweenness(gr, p, EmptyMap, ord),
                    MergedPasses(gr, pivotSet \ {p}))

\* C17: the scores of the sampled computation depend only on the set of
\* pivots: whatever the order in which the pivots' passes add into the shared
\* accumulator, the scores are those of the passes run apart and summed.
C17_ScoresDependOnPivotSetOnly ==
    pc = "approx" /\ result.Mode = BetweennessApproximate /\ sampleSize > 0 =>
        result.Scores =
            Scaled(MergedPasses(an.g, Range(pivots)), an.g.n, sampleSize)

C17_Witness ==
    /\ pc = "approx" /\ result.Mode = BetweennessApproximate
    /\ Len(pivots) = 2 /\ pivots[1] > pivots[2]
    /\ \E v \in DOMAIN result.Scores :
          /\ MapGet(singleSourceBetweenness(an.g, pivots[1], EmptyMap,
                       [i \in 1 .. an.g.n |-> i - 1]), v, RInt(0)) # RInt(0)
          /\ MapGet(singleSourceBetweenness(an.g, pivots[2], EmptyMap,
                       [i \in 1 .. an.g.n |-> i - 1]), v, RInt(0)) # RInt(0)

\* C18: whatever a bundle holds when it is checked out (values left by a
\* pass from another pivot or on another graph included), the pass run on
\* the reset bundle adds to the accumulator exactly what a pass on freshly
\* allocated scratch maps adds.
C18_PooledPassEqualsFreshPass ==
    \A w \in DOMAIN workers :
        workers[w].pc = "done" =>
            workers[w].bc =
                singleSourceBetweenness(workers[w].gr, workers[w].source, EmptyMap,
                    [i \in 1 .. workers[w].gr.n |-> i - 1])

C18_Witness ==
    \E w \in DOMAIN workers :
        /\ workers[w].pc = "done"
        /\ \E v \in Nodes(workers[w].gr) \cap DOMAIN workers[w].prior.pred :
              /\ workers[w].prior.pred[v] # {}
              /\ workers[w].prior.pred[v] # bundles[workers[w].buf].pred[v]
        /\ \E v \in DOMAIN workers[w].bc : workers[w].bc[v] # RInt(0)

\* C19: no two workers hold the same bundle at the same time, and a bundle
\* a worker holds is not in the pool: it can be checked out again only after
\* the pass holding it has put it back.
C19_NoBundleHeldTwice ==
    /\ \A w1, w2 \in DOMAIN workers :
          w1 # w2 /\ workers[w1].pc # "idle" /\ workers[w2].pc # "idle"
              => workers[w1].buf # workers[w2].buf
    /\ \A w \in DOMAIN workers :
          workers[w].pc # "idle" => workers[w].buf \notin pool

C19_Witness ==
    /\ Cardinality({w \in DOMAIN workers : workers[w].pc # "idle"}) >= 2
    /\ \E w \in DOMAIN workers :
          workers[w].pc = "holding" /\ workers[w].prior # NewBuffers

\* C20: once the betweenness deadline has passed during the sampled
\* computation, the accumulator holds the contributions of the completed
\* pivots only (a pass that has started and not finished has added nothing),
\* and the result returned reports the timeout.
C20_DeadlineLeavesWholePivotsOnly ==
    expired =>
        /\ pc = "sampling" =>
              \A v \in Nodes(an.g) :
                  MapGet(partialBC, v, RInt(0)) =
                      MapGet(MergedPasses(an.g, Range(SubSeq(pivots, 1, passes))),
                             v, RInt(0))
        /\ pc = "approx" => result.TimedOut

\* The issues of the list that have no parent-child dependency.
WithoutParent(iss) ==
    {i \in DOMAIN iss :
        \A j \in DOMAIN iss[i].Dependencies :
            iss[i].Dependencies[j].Type # DepParentChild}

\* C21: after Build every issue without a parent-child dependency is a root:
\* for a list with no parent-child dependencies RootCount is the number of
\* issues, with no dependencies at all NodeCount is too, and Build of the
\* empty list gives IsBuilt, 0 roots and 0 visible nodes.
C21_IssuesWithoutParentAreRoots ==
    pc = "Build" =>
        /\ IsBuilt(tree)
        /\ WithoutParent(issues) = DOMAIN issues
              => RootCount(tree) = Len(issues)
        /\ (\A i \in DOMAIN issues : issues[i].Dependencies = <<>>)
              => NodeCount(tree) = Len(issues)

\* The position of every ancestor of v, and of v, among its siblings, from
\* the root down.
RECURSIVE SiblingPath(_, _)
SiblingPath(t, v) ==
    LET par == t.nodes[v].Parent
        sibs == IF par = 0 THEN t.roots ELSE t.nodes[par].Children
        pos == CHOOSE i \in DOMAIN sibs : sibs[i] = v
    IN  IF par = 0 THEN <<pos>> ELSE Append(SiblingPath(t, par), pos)

RECURSIVE Ancestors(_, _)
Ancestors(t, v) ==
    LET par == t.nodes[v].Parent
    IN  IF par = 0 THEN {} ELSE {par} \cup Ancestors(t, par)

\* p comes before q in pre-order: p is a proper prefix of q, or p is smaller
\* at the first position where they differ.
PathBefore(p, q) ==
    \/ Len(p) < Len(q) /\ \A k \in DOMAIN p : p[k] = q[k]
    \/ \E k \in DOMAIN p \cap DOMAIN q :
          /\ p[k] < q[k]
          /\ \A h \in 1 .. k - 1 : p[h] = q[h]

VisibleNodes(t) ==
    {v \in DOMAIN t.nodes : \A a \in Ancestors(t, v) : t.nodes[a].Expanded}

IsPreOrderOfVisible(t) ==
    /\ Range(t.flatList) = VisibleNodes(t)
    /\ \A i, j \in DOMAIN t.flatList :
          i < j => PathBefore(SiblingPath(t, t.flatList[i]),
                              SiblingPath(t, t.flatList[j]))

\* C22: CollapseAll leaves exactly the roots visible, ExpandAll makes every
\* node visible, ToggleExpand twice on a selected node with children gives
\* back the visible list, and the visible list is always the pre-order of the
\* nodes all of whose ancestors are expanded.
C22_VisibleListFollowsExpansion ==
    /\ IsPreOrderOfVisible(tree)
    /\ pc = "CollapseAll" => tree.flatList = tree.roots
    /\ pc = "ExpandAll" => Range(tree.flatList) = DOMAIN tree.nodes
    /\ SelectedNode(tree) # 0
          => (Len(tree.nodes[SelectedNode(tree)].Children) > 0
                 => /\ ToggleExpand(tree).flatList # tree.flatList
                    /\ ToggleExpand(ToggleExpand(tree)).flatList = tree.flatList)

C22_Witness ==
    /\ pc = "ToggleExpand"
    /\ SelectedNode(tree) # 0
    /\ Len(tree.nodes[SelectedNode(tree)].Children) > 0
    /\ ~tree.nodes[SelectedNode(tree)].Expanded
    /\ tree.cursor > 0
    /\ \E v \in DOMAIN tree.nodes :
          tree.nodes[v].Parent # 0 /\ v \in Range(tree.flatList)

\* C29: after any sequence of calls the cursor is 0 when no node is visible
\* and otherwise an index of the visible list; SelectedNode is nil exactly
\* when the visible list is empty.
C29_CursorInBounds ==
    /\ tree.flatList = <<>> => tree.cursor = 0
    /\ tree.flatList # <<>>
          => tree.cursor >= 0 /\ tree.cursor < Len(tree.flatList)
    /\ SelectedNode(tree) # 0 <=> tree.flatList # <<>>

C29_Witness ==
    /\ pc = "CollapseAll"
    /\ Len(tree.flatList) < Cardinality(DOMAIN tree.nodes)
    /\ tree.cursor >= 1
    /\ tree.cursor = Len(tree.flatList) - 1

\* C30: Configure with weights that fail validation returns the error and
\* leaves the weights as they were; with valid weights it returns nil and
\* GetWeights returns the weights given.
C30_ConfigureValidatesBeforeAssigning ==
    pc = "Configure" =>
        IF scorer.arg \in scorer.valid
        THEN ~scorer.err /\ GetWeights(scorer) = scorer.arg
        ELSE scorer.err /\ GetWeights(scorer) = scorer.prev

C30_Witness ==
    /\ pc = "Configure"
    /\ scorer.err
    /\ scorer.arg # scorer.prev
    /\ scorer.prev \in scorer.valid
    /\ GetWeights(scorer) = scorer.prev

\* C23: in every single-source pass the distance-ordered list holds exactly
\* the nodes reachable from the pivot other than the pivot, and each of them
\* ends the sigma phase with the predecessors the dist[p]+1 = dist[n] test
\* finds, at least one, and with sigma[n] >= 1 the number of shortest paths
\* from the pivot to n: the accumulation never divides by zero and the
\* distance-1 fallback finds nothing the test has not found.
C23_SigmaCountsShortestPaths ==
    pc = "sweep" /\ passes >= 1 =>
        \A ord \in NodeOrders(an.g) :
            LET s == pivots[passes]
                ps == PassState(an.g, s, ord, FreshBuffers(an.g))
            IN  /\ Range(ps.stack) =
                      {v \in Nodes(an.g) : v # s /\ HopDist(an.g, s, v) > 0}
                /\ \A n \in Range(ps.stack) :
                      /\ {p \in To(an.g, n) :
                             ps.dist[p] >= 0 /\ ps.dist[p] + 1 = ps.dist[n]} # {}
                      /\ ps.st.pred[n] # {}
                      /\ ps.st.pred[n] =
                            {p \in To(an.g, n) :
                                /\ HopDist(an.g, s, p) >= 0
                                /\ HopDist(an.g, s, p) + 1 = HopDist(an.g, s, n)}
                      /\ ps.st.sigma[n] >= 1
                      /\ ps.st.sigma[n] =
                            Walks(an.g, s, n, HopDist(an.g, s, n))

C23_Witness ==
    /\ pc = "sweep" /\ passes >= 1
    /\ LET ps == PassState(an.g, pivots[passes],
                           [i \in 1 .. an.g.n |-> i - 1], FreshBuffers(an.g))
       IN  \E n \in Range(ps.stack) :
              /\ ps.st.sigma[n] = 2
              /\ Cardinality(ps.st.pred[n]) = 2

\* C24: on an acyclic graph computeHeights gives the same heights for every
\* topological order the sort may return.
C24_HeightsIndependentOfSortOrder ==
    pc = "analyzed" /\ Acyclic(an.g) =>
        \A sort \in TopoSort(an.g) :
            computeHeights(an, sort.sorted) = stats.CriticalPathScore

C24_Witness ==
    /\ pc = "analyzed" /\ Acyclic(an.g)
    /\ Cardinality(TopoSort(an.g)) >= 3
    /\ \E id \in DOMAIN stats.CriticalPathScore :
          stats.CriticalPathScore[id] >= 3

\* C25: a single-source pass from pivot s changes the accumulator only at
\* the nodes reachable from s other than s: the entries of s and of the
\* nodes s does not reach are neither changed nor created, no entry
\* decreases, and the graph is left as it was.
C25_PassTouchesReachableNodesOnly ==
    [][pc = "sweep" /\ passes' = passes + 1 =>
        LET s == pivots[passes + 1]
            reached == {v \in Nodes(an.g) : v # s /\ HopDist(an.g, s, v) > 0}
        IN  /\ DOMAIN partialBC' \subseteq DOMAIN partialBC \cup reached
            /\ \A v \in DOMAIN partialBC :
                  /\ v \in DOMAIN partialBC'
                  /\ RLe(partialBC[v], partialBC'[v])
                  /\ v \notin reached => partialBC'[v] = partialBC[v]
            /\ an' = an]_vars

C25_Witness ==
    /\ pc = "sweep" /\ passes >= 2
    /\ \E v \in DOMAIN partialBC : partialBC[v] # RInt(0)
    /\ \E v \in DOMAIN partialBC :
          HopDist(an.g, pivots[passes], v) < 0 /\ partialBC[v] # RInt(0)
    /\ \E v \in Nodes(an.g) : v \notin DOMAIN partialBC

\* C26: on an acyclic graph the TopologicalOrder of Analyze holds every
\* issue exactly once and prerequisites first: for every edge u -> v
\* (u depends on v), v comes before u.
C26_TopologicalOrderPrerequisitesFirst ==
    pc = "analyzed" /\ Acyclic(an.g) =>
        LET order == stats.TopologicalOrder
            Pos(id) == CHOOSE i \in DOMAIN order : order[i] = id
        IN  /\ Len(order) = Len(issues)
            /\ \A id \in AllIDs :
                  Cardinality({i \in DOMAIN order : order[i] = id}) = 1
            /\ \A e \in an.g.edges :
                  Pos(an.nodeToID[e[2]]) < Pos(an.nodeToID[e[1]])

C26_Witness ==
    /\ pc = "analyzed" /\ Acyclic(an.g)
    /\ Cardinality(an.g.edges) >= 3
    /\ Len(stats.TopologicalOrder) = 4
    /\ stats.TopologicalOrder[1] # "A"

RECURSIVE SumOfMap(_)
SumOfMap(m) ==
    IF DOMAIN m = {} THEN 0
    ELSE LET k == CHOOSE x \in DOMAIN m : TRUE
         IN  m[k] + SumOfMap([x \in DOMAIN m \ {k} |-> m[x]])

\* The ids an issue lists as dependencies.
DependsOnIDs(issue) ==
    {issue.Dependencies[k].DependsOnID : k \in DOMAIN issue.Dependencies}

\* C27: Analyze reports for every issue InDegree = the number of distinct
\* issues that depend on it and OutDegree = the number of distinct existing
\* issues it depends on (a dependency listed twice counts once); the
\* InDegree values and the OutDegree values both add up to the number of
\* edges.
C27_DegreesCountDependencies ==
    pc = "analyzed" =>
        /\ \A i \in DOMAIN issues :
              /\ stats.InDegree[issues[i].ID] =
                    Cardinality({j \in DOMAIN issues :
                                    issues[i].ID \in DependsOnIDs(issues[j])})
              /\ stats.OutDegree[issues[i].ID] =
                    Cardinality(DependsOnIDs(issues[i]) \cap AllIDs)
        /\ SumOfMap(stats.InDegree) = Cardinality(an.g.edges)
        /\ SumOfMap(stats.OutDegree) = Cardinality(an.g.edges)


\* The budget of the configuration large is no greater than that of small:
\* each metric both compute has no longer a timeout in large, and large stores
\* no more cycles.
BudgetNoLarger(small, large) ==
    /\ (small.ComputeBetweenness /\ large.ComputeBetweenness)
          => large.BetweennessTimeout <= small.BetweennessTimeout
    /\ (small.ComputePageRank /\ large.ComputePageRank)
          => large.PageRankTimeout <= small.PageRankTimeout
    /\ (small.ComputeHITS /\ large.ComputeHITS)
          => large.HITSTimeout <= small.HITSTimeout
    /\ (small.ComputeCycles /\ large.ComputeCycles)
          => large.CyclesTimeout <= small.CyclesTimeout
    /\ large.MaxCyclesToStore <= small.MaxCyclesToStore

\* The budget fields of a configuration.
Budget(c) ==
    [ ComputeBetweenness |-> c.ComputeBetweenness,
      BetweennessTimeout |-> c.BetweennessTimeout,
      ComputePageRank    |-> c.ComputePageRank,
      PageRankTimeout    |-> c.PageRankTimeout,
      ComputeHITS        |-> c.ComputeHITS,
      HITSTimeout        |-> c.HITSTimeout,
      ComputeCycles      |-> c.ComputeCycles,
      CyclesTimeout      |-> c.CyclesTimeout,
      MaxCyclesToStore   |-> c.MaxCyclesToStore ]

\* The budgets ConfigForSize gives to the graphs of a nodes, over their edge
\* counts; the budgets it gives at all; and the least node count that gets a
\* budget.  A graph of at most b nodes gets the budget bg exactly when
\* FirstAt[bg] <= b.
BudgetsAt ==
    [a \in NodeCounts |-> {Budget(ConfigForSize(a, ea)) : ea \in EdgeCounts(a)}]

DistinctBudgets == UNION {BudgetsAt[a] : a \in NodeCounts}

FirstAt ==
    [bg \in DistinctBudgets |->
        CHOOSE a \in NodeCounts :
            /\ bg \in BudgetsAt[a]
            /\ \A a2 \in 0 .. a - 1 : bg \notin BudgetsAt[a2]]

\* C28: larger graphs never get a larger budget.  The configuration
\* ConfigForSize returned for nodeCount nodes has, compared with the
\* configuration of every graph of at most as many nodes and any edge count,
\* no longer a timeout for any metric enabled in both, and no greater
\* MaxCyclesToStore.
C28_LargerGraphsNoLargerBudget ==
    pc = "config" =>
        \A bg \in DistinctBudgets :
            FirstAt[bg] <= nodeCount => BudgetNoLarger(bg, cfg)

\* A sparse Large graph was configured: its sampled betweenness has exactly
\* the Medium tier's timeout, its PageRank a shorter one, and a dense graph of
\* fewer nodes in the same tier has betweenness skipped.
C28_Witness ==
    /\ pc = "config"
    /\ cfg.BetweennessMode = BetweennessApproximate
    /\ nodeCount < 2000
    /\ \E a \in 100 .. 499 :
          /\ ConfigForSize(a, 0).BetweennessTimeout = cfg.BetweennessTimeout
          /\ ConfigForSize(a, 0).PageRankTimeout > cfg.PageRankTimeout
          /\ ConfigForSize(a, 0).MaxCyclesToStore > cfg.MaxCyclesToStore
    /\ \E a \in 500 .. nodeCount :
          ~ConfigForSize(a, a * (a - 1)).ComputeBetweenness

=============================================================================
